---- MODULE Spec2Model ----
(***************************************************************************)
(* GigaAM transcriber: the REST job store (api.py tasks_storage), the      *)
(* admission semaphore and the per-job pipeline process_transcription,     *)
(* with TranscriptionProcessor.process_file run in an executor thread.     *)
(*                                                                         *)
(*   Spec       the REST service                                           *)
(*   SpecFile   one process_file call with the formats and the             *)
(*              diarization switch of a front-end                          *)
(*   SpecGui    a batch in the desktop window and its progress bar         *)
(*   SpecMap    DiarizationManager.map_speakers_to_transcription           *)
(*   SpecRename DiarizationManager.diarize: the turns sorted and renamed   *)
(*   SpecStats  ProcessingStats: the history and the estimates             *)
(*   SpecQuery  the handlers that read a job's result                      *)
(*   SpecLive   the REST service with every pipeline given its turn        *)
(*   SpecCleanup the REST service with the age-based eviction              *)
(*   SpecThreads start, clear-all and the worker threads of the desktop    *)
(*   SpecCli    the command-line batch loop                                *)
(***************************************************************************)
EXTENDS Integers, Sequences, FiniteSets, TLC

\* ---------------------------------------------------------------- bounds
\* number of task ids (uuid4 values) the model hands out
MaxJobs == 2
\* largest value of the MAX_CONCURRENT_TASKS setting that is explored
MaxPool == 2

\* ------------------------------------------------------- program constants
\* a re-check loop that gives up one pass early
RetryAttemptsShort == 3 - 1

\* api.py:380  for attempt in range(3)
RETRY_ATTEMPTS == 3

Ids == 1..MaxJobs

\* ------------------------------------------------------------------ state
VARIABLES
  hfTokenValid,          \* config.HF_TOKEN is set and starts with "hf_"
  apiState,              \* "starting" | "running" | "startup_failed"
  MAX_CONCURRENT_TASKS,  \* the pool size read from the environment
  processing_semaphore,  \* free permits of asyncio.Semaphore
  nextId,                \* how many task ids uuid4 has produced for stored jobs
  tasks_storage,         \* dict task_id -> task record
  uploads,               \* task ids whose upload file is on disk
  resultDirs,            \* task ids whose RESULTS_DIR/<id> exists
  artifacts,             \* task ids whose rendered .txt files are on disk
  tempWav,               \* task ids whose temp_*.wav is on disk
  pc,                    \* position of each background task
  attempt,               \* loop variable of the existence re-check
  pfSuccess,             \* result['success'] of process_file
  converter,             \* per id: what convert_to_wav did
  asr,                   \* per id: what transcribe_longform did
  calls,                 \* per id: number of converter / ASR invocations
  waits,                 \* per id: number of asyncio.sleep(0.5) taken
  checks,                \* per id: exists() checks made by the re-check loop
  raised,                \* ids whose process_transcription raised to its caller
  deletedQueued,         \* ids deleted before their pipeline got a permit
  refusal,               \* the request for a task in progress just answered 400
  stats,                 \* ProcessingStats.stats["history"]
  response,              \* what the latest read request was answered
  output_formats,        \* formats passed to process_file
  enable_diarization,    \* diarization passed to process_file
  lastResult,            \* what the latest direct process_file call returned
  files_to_process,      \* GUI: the selected files
  is_processing,         \* GUI: a batch is running
  total_files,           \* GUI: size of the running batch
  files_processed,       \* GUI: files of the batch that succeeded
  fileStarted,           \* GUI: current_file_start_time > 0
  elapsed,               \* GUI: seconds since current_file_start_time
  fileIndex,             \* GUI: loop variable i of process_files, from 1
  guiPc,                 \* GUI: position of the worker thread
  progress_bar,          \* GUI: overall progress shown, in 1/1000
  shownBefore,           \* GUI: overall progress shown before the latest update
  pipeline_turns,        \* diarization: the turns as the pyannote pipeline gave them
  speaker_segments,      \* diarization: the speaker turns
  transcription_segments, \* diarization: the transcript segments
  summary,               \* ProcessingStats.stats["summary"]
  estimated,             \* what the latest estimate call returned
  aged,                  \* task ids whose created_at is before the cleanup cutoff
  workers,               \* GUI: the worker threads started so far
  cli_files,             \* CLI: what happens to each file of the input list
  cli_pc,                \* CLI: position of process_files_with_progress
  results                \* CLI: the list process_files_with_progress builds

\* state of the direct process_file call and of the desktop front-end
callVars == << output_formats, enable_diarization, lastResult >>
guiVars == << files_to_process, is_processing, total_files, files_processed,
              fileStarted, elapsed, fileIndex, guiPc, progress_bar, shownBefore >>
\* state of the speaker mapping
mapVars == << pipeline_turns, speaker_segments, transcription_segments >>
\* state of the estimator of processing times
statVars == << summary, estimated >>
\* state of the eviction, of the desktop worker threads and of the
\* command-line batch loop
lateVars == << aged, workers, cli_files, cli_pc, results >>
\* everything the REST service never touches
offApiVars == << stats, response, callVars, guiVars, mapVars, statVars, lateVars >>

vars == << hfTokenValid, apiState, MAX_CONCURRENT_TASKS, processing_semaphore,
           nextId, tasks_storage, uploads, resultDirs, artifacts, tempWav, pc,
           attempt, pfSuccess, converter, asr, calls, waits, checks, raised,
           deletedQueued, refusal, offApiVars >>

configVars == << hfTokenValid, MAX_CONCURRENT_TASKS >>
histVars == << converter, asr, calls, waits, checks >>
diskVars == << uploads, resultDirs, artifacts, tempWav >>
apiVars == << apiState, MAX_CONCURRENT_TASKS, processing_semaphore, nextId,
              tasks_storage, uploads, resultDirs, artifacts, tempWav, pc,
              attempt, pfSuccess, converter, asr, calls, waits, checks, raised,
              deletedQueued, refusal >>

\* the latest step was anything but the refusal of a request for a task in
\* progress
NoRefusal == [op |-> "none", id |-> 0]

\* a record created by a submit that runs the pipeline before it returns
NewTaskStarted == [status |-> "processing", progress |-> 5, error |-> "none",
                   error_details |-> FALSE]

\* api.py:714-724  the record upload_file creates
NewTask == [status |-> "pending", progress |-> 0, error |-> "none",
            error_details |-> FALSE]

\* dict item removal: del tasks_storage[task_id]
DelKeys(d, S) == [k \in (DOMAIN d) \ S |-> d[k]]

\* positions at which process_transcription holds a permit
InsidePcs == {"recheck", "sleeping", "convert", "transcribe", "render", "returned"}

Inside == {j \in Ids : pc[j] \in InsidePcs}

\* the elements of a list
Range(seq) == {seq[i] : i \in DOMAIN seq}

\* no read request has been answered yet
NoResponse == [op |-> "none", id |-> 0, code |-> 0]

\* processor.py:102-110  the result dictionary before any stage has run
NoResult == [returned |-> FALSE, success |-> FALSE, converted |-> FALSE,
             transcribed |-> FALSE, utterances |-> << >>, saved |-> << >>,
             entries |-> 0, write_error |-> FALSE, diarization |-> "not_run",
             content |-> << >>, invoked |-> << >>]

\* api.py:416-424  the service calls process_file with the default formats
\* and without diarization; no direct call has been made
CallIdle ==
  /\ output_formats = {"txt"}
  /\ enable_diarization = FALSE
  /\ lastResult = NoResult

\* gui/app.py:28-48  the desktop window before anything is selected
GuiIdle ==
  /\ files_to_process = << >>
  /\ is_processing = FALSE
  /\ total_files = 0
  /\ files_processed = 0
  /\ fileStarted = FALSE
  /\ elapsed = 0
  /\ fileIndex = 0
  /\ guiPc = "ready"
  /\ progress_bar = 0
  /\ shownBefore = 0

\* no diarization has been run
\* processing_stats.py:27  the summary of a statistics file not yet written
EmptySummary == [ext \in {} |-> 0]

NoEstimate == [op |-> "none"]

\* no task has aged beyond the cutoff
EvictIdle == aged = {}

\* gui/app.py:832-833  no worker thread has been started
ThreadIdle == workers = << >>

\* cli.py:255-278  process_files_with_progress has not been called
CliIdle ==
  /\ cli_files = << >>
  /\ cli_pc = "not_called"
  /\ results = << >>

LateIdle ==
  /\ EvictIdle
  /\ ThreadIdle
  /\ CliIdle

StatIdle ==
  /\ summary = EmptySummary
  /\ estimated = NoEstimate

MapIdle ==
  /\ StatIdle
  /\ LateIdle
  /\ pipeline_turns = << >>
  /\ speaker_segments = << >>
  /\ transcription_segments = << >>

\* api.py:79-88  the module globals of the service before startup
ApiIdle ==
  /\ apiState = "starting"
  /\ MAX_CONCURRENT_TASKS = 1
  /\ processing_semaphore = 0
  /\ nextId = 0
  /\ tasks_storage = << >>
  /\ uploads = {}
  /\ resultDirs = {}
  /\ artifacts = {}
  /\ tempWav = {}
  /\ pc = [j \in Ids |-> "idle"]
  /\ attempt = [j \in Ids |-> 0]
  /\ pfSuccess = [j \in Ids |-> FALSE]
  /\ converter = [j \in Ids |-> "none"]
  /\ asr = [j \in Ids |-> "none"]
  /\ calls = [j \in Ids |-> [conv |-> 0, asr |-> 0]]
  /\ waits = [j \in Ids |-> 0]
  /\ checks = [j \in Ids |-> 0]
  /\ raised = {}
  /\ deletedQueued = {}
  /\ refusal = NoRefusal

Init ==
  /\ stats = << >>
  /\ response = NoResponse
  /\ CallIdle
  /\ GuiIdle
  /\ MapIdle
  /\ hfTokenValid \in BOOLEAN
  /\ apiState = "starting"
  /\ MAX_CONCURRENT_TASKS \in 1..MaxPool
  /\ processing_semaphore = 0
  /\ nextId = 0
  /\ tasks_storage = << >>
  /\ uploads = {}
  /\ resultDirs = {}
  /\ artifacts = {}
  /\ tempWav = {}
  /\ pc = [j \in Ids |-> "idle"]
  /\ attempt = [j \in Ids |-> 0]
  /\ pfSuccess = [j \in Ids |-> FALSE]
  /\ converter = [j \in Ids |-> "none"]
  /\ asr = [j \in Ids |-> "none"]
  /\ calls = [j \in Ids |-> [conv |-> 0, asr |-> 0]]
  /\ waits = [j \in Ids |-> 0]
  /\ checks = [j \in Ids |-> 0]
  /\ raised = {}
  /\ deletedQueued = {}
  /\ refusal = NoRefusal

\* api.py:503-548  startup: refuse to run without a token, create the semaphore
lifespan ==
  /\ apiState = "starting"
  /\ IF hfTokenValid
       THEN /\ apiState' = "running"
            /\ processing_semaphore' = MAX_CONCURRENT_TASKS
       ELSE /\ apiState' = "startup_failed"
            /\ UNCHANGED processing_semaphore
  /\ refusal' = NoRefusal
  /\ UNCHANGED << configVars, offApiVars, nextId, tasks_storage, diskVars, pc, attempt,
                  pfSuccess, histVars, raised, deletedQueued >>

\* api.py:640-737  POST /api/v1/transcribe
upload_file(supported, saved) ==
  /\ apiState = "running"
  /\ IF ~supported
       THEN \* 656-660: unsupported format, 400
            UNCHANGED << nextId, tasks_storage, uploads, pc >>
       ELSE /\ nextId < MaxJobs
            /\ LET task_id == nextId + 1 IN
               IF ~saved
                 THEN \* 705-711: the write failed, the partial file is
                      \* unlinked and the id is never seen again, 500
                      UNCHANGED << nextId, tasks_storage, uploads, pc >>
                 ELSE \* 713-737: record created, background task scheduled
                      /\ nextId' = task_id
                      /\ uploads' = uploads \cup {task_id}
                      /\ tasks_storage' = (task_id :> NewTask) @@ tasks_storage
                      /\ pc' = [pc EXCEPT ![task_id] = "queued"]
  /\ refusal' = NoRefusal
  /\ UNCHANGED << configVars, offApiVars, apiState, processing_semaphore, resultDirs,
                  artifacts, tempWav, attempt, pfSuccess, histVars, raised,
                  deletedQueued >>

\* largest number of files one batch request carries
MaxUpload == 2

\* what happens to one file of a batch: accepted and written to UPLOAD_DIR,
\* refused by is_supported_format, or lost while it is written
FileOutcomes == {"ok", "unsupported", "unsaved"}

\* the files of a request up to the first one that is not accepted: the
\* loop never looks at the files after it (api.py:778-836)
Batches ==
  {b \in UNION {[1..n -> FileOutcomes] : n \in 0..MaxUpload} :
     \A i \in DOMAIN b : b[i] # "ok" => i = Len(b)}

\* api.py:778-861  the number of files the loop gets through before one of
\* them makes the handler raise
RECURSIVE handled_before_raise(_)
handled_before_raise(files) ==
  IF files = << >> \/ Head(files) # "ok" THEN 0
  ELSE 1 + handled_before_raise(Tail(files))

\* api.py:764-785, 830-836  the request ends with an HTTP error: no file at
\* all, or a file that is refused or cannot be saved
batch_rejected(files) ==
  Len(files) = 0 \/ handled_before_raise(files) < Len(files)

\* api.py:747-867  POST /api/v1/transcribe/batch.  Every file the loop gets
\* through has its upload file and its record before the next file is looked
\* at; a file that is refused (781-785) or not saved (830-836) makes the
\* handler raise with nothing undone for the earlier files.  The background
\* tasks of a request travel with its response: they are started only when
\* the handler returns (863-867), never when it raises.
upload_files_batch(files) ==
  /\ apiState = "running"
  /\ LET created == handled_before_raise(files)
         new_tasks == (nextId + 1)..(nextId + created)
         returned == ~batch_rejected(files)
     IN /\ nextId + created <= MaxJobs
        /\ nextId' = nextId + created
        /\ uploads' = uploads \cup new_tasks
        /\ tasks_storage' = [t \in new_tasks |-> NewTask] @@ tasks_storage
        /\ pc' = [j \in Ids |-> IF j \in new_tasks /\ returned THEN "queued"
                                ELSE pc[j]]
  /\ refusal' = NoRefusal
  /\ UNCHANGED << configVars, offApiVars, apiState, processing_semaphore, resultDirs,
                  artifacts, tempWav, attempt, pfSuccess, histVars, raised,
                  deletedQueued >>

\* delete_task without the test of api.py:1297-1301
delete_task_unguarded(task_id) ==
  /\ apiState = "running"
  /\ IF task_id \notin DOMAIN tasks_storage
       THEN \* 1289-1293: 404
            /\ refusal' = NoRefusal
            /\ UNCHANGED << tasks_storage, diskVars, deletedQueued >>
       ELSE /\ uploads' = uploads \ {task_id}
            /\ resultDirs' = resultDirs \ {task_id}
            /\ artifacts' = artifacts \ {task_id}
            /\ tempWav' = tempWav \ {task_id}
            /\ tasks_storage' = DelKeys(tasks_storage, {task_id})
            /\ deletedQueued' = IF pc[task_id] = "queued"
                                  THEN deletedQueued \cup {task_id}
                                  ELSE deletedQueued
            /\ refusal' = NoRefusal
  /\ UNCHANGED << configVars, offApiVars, apiState, processing_semaphore, nextId, pc,
                  attempt, pfSuccess, histVars, raised >>

\* api.py:1283-1317  DELETE /api/v1/tasks/{task_id}
delete_task(task_id) ==
  /\ apiState = "running"
  /\ IF task_id \notin DOMAIN tasks_storage
       THEN \* 1289-1293: 404
            /\ refusal' = NoRefusal
            /\ UNCHANGED << tasks_storage, diskVars, deletedQueued >>
       ELSE IF tasks_storage[task_id].status = "processing"
       THEN \* 1297-1301: 400
            /\ refusal' = [op |-> "delete_task", id |-> task_id]
            /\ UNCHANGED << tasks_storage, diskVars, deletedQueued >>
       ELSE \* 1303-1317: upload file, result directory and record removed
            /\ uploads' = uploads \ {task_id}
            /\ resultDirs' = resultDirs \ {task_id}
            /\ artifacts' = artifacts \ {task_id}
            /\ tempWav' = tempWav \ {task_id}
            /\ tasks_storage' = DelKeys(tasks_storage, {task_id})
            /\ deletedQueued' = IF pc[task_id] = "queued"
                                  THEN deletedQueued \cup {task_id}
                                  ELSE deletedQueued
            /\ refusal' = NoRefusal
  /\ UNCHANGED << configVars, offApiVars, apiState, processing_semaphore, nextId, pc,
                  attempt, pfSuccess, histVars, raised >>

\* a filter "all" that spares no status
statuses_to_delete_every(status_filter) ==
  IF status_filter = "all" THEN {"pending", "processing", "completed", "failed"}
  ELSE IF status_filter \in {"completed", "failed", "pending"} THEN {status_filter}
  ELSE {"completed", "failed"}

\* api.py:1324-1406  DELETE /api/v1/tasks?status_filter=...
statuses_to_delete(status_filter) ==
  IF status_filter = "all" THEN {"pending", "completed", "failed"}
  ELSE IF status_filter \in {"completed", "failed", "pending"} THEN {status_filter}
  ELSE {"completed", "failed"}

delete_all_tasks(status_filter) ==
  /\ apiState = "running"
  /\ IF status_filter \notin {"all", "completed", "failed", "pending", "None"}
       THEN \* 1349-1353: 400
            /\ refusal' = NoRefusal
            /\ UNCHANGED << tasks_storage, diskVars, deletedQueued >>
       ELSE LET tasks_to_delete ==
                  {t \in DOMAIN tasks_storage :
                     tasks_storage[t].status \in statuses_to_delete(status_filter)}
            IN /\ uploads' = uploads \ tasks_to_delete
               /\ resultDirs' = resultDirs \ tasks_to_delete
               /\ artifacts' = artifacts \ tasks_to_delete
               /\ tempWav' = tempWav \ tasks_to_delete
               /\ tasks_storage' = DelKeys(tasks_storage, tasks_to_delete)
               /\ deletedQueued' = deletedQueued \cup
                                     {t \in tasks_to_delete : pc[t] = "queued"}
               /\ refusal' = NoRefusal
  /\ UNCHANGED << configVars, offApiVars, apiState, processing_semaphore, nextId, pc,
                  attempt, pfSuccess, histVars, raised >>

\* the upload file disappears from UPLOAD_DIR behind the program's back (the
\* race the lookups of api.py:295-348 and 376-405 are written for); only
\* files a pipeline has still to read are considered
upload_lost(task_id) ==
  /\ apiState = "running"
  /\ task_id \in uploads
  /\ pc[task_id] \in {"queued", "recheck", "sleeping", "convert"}
  /\ uploads' = uploads \ {task_id}
  /\ refusal' = NoRefusal
  /\ UNCHANGED << configVars, offApiVars, apiState, processing_semaphore, nextId,
                  tasks_storage, resultDirs, artifacts, tempWav, pc, attempt,
                  pfSuccess, histVars, raised, deletedQueued >>

\* a semaphore whose acquire never blocks
AcquirableAlways == TRUE

\* api.py:281  async with processing_semaphore: a permit can be taken
Acquirable == processing_semaphore > 0

\* an exit path that keeps its permit
ReleasedLeak(permits) == permits

\* api.py:281  async with processing_semaphore: the permit is given back
\* when the block is left, by return or by exception
Released(permits) == permits + 1

\* a failure handler that puts the job back in the queue
MarkFailedRequeue(task_id, error, details) ==
  IF task_id \in DOMAIN tasks_storage
    THEN /\ tasks_storage' = [tasks_storage EXCEPT ![task_id] =
                                [@ EXCEPT !.status = "pending", !.error = error,
                                          !.error_details = details]]
         /\ UNCHANGED raised
    ELSE /\ raised' = raised \cup {task_id}
         /\ UNCHANGED tasks_storage

\* a failure handler that assigns the record instead of updating it
MarkFailedAssign(task_id, error, details) ==
  /\ tasks_storage' = (task_id :> [status |-> "failed", progress |-> 0,
                                   error |-> error, error_details |-> details])
                         @@ tasks_storage
  /\ UNCHANGED raised

\* tasks_storage[task_id].update({'status': 'failed', ...}) as the last thing
\* the pipeline does: api.py:331-337, 342-347, 399-404 (no traceback stored)
\* and 461-473 (traceback stored).  A KeyError raised by the update is raised
\* again by the update of the handler at 467 and leaves process_transcription.
MarkFailed(task_id, error, details) ==
  IF task_id \in DOMAIN tasks_storage
    THEN /\ tasks_storage' = [tasks_storage EXCEPT ![task_id] =
                                [@ EXCEPT !.status = "failed", !.error = error,
                                          !.error_details = details]]
         /\ UNCHANGED raised
    ELSE /\ raised' = raised \cup {task_id}
         /\ UNCHANGED tasks_storage

\* a callback that writes the progress of the stage without the share of
\* the stages before it
progress_callback_stage(task_id, value) ==
  [tasks_storage EXCEPT ![task_id] = [@ EXCEPT !.progress = value - 20]]

\* a callback that writes the progress into every record being processed
progress_callback_shared(task_id, value) ==
  [t \in DOMAIN tasks_storage |->
     IF tasks_storage[t].status = "processing"
       THEN [tasks_storage[t] EXCEPT !.progress = value]
       ELSE tasks_storage[t]]

\* api.py:362-366  progress_callback, called from the executor thread
progress_callback(task_id, value) ==
  [tasks_storage EXCEPT ![task_id] = [@ EXCEPT !.progress = value]]

\* api.py:281-359  permit acquired, first lookup of the upload file
pt_start(task_id) ==
  /\ pc[task_id] = "queued"
  /\ Acquirable
  /\ IF task_id \in uploads
       THEN IF task_id \in DOMAIN tasks_storage
              THEN \* 353-359
                   /\ tasks_storage' = [tasks_storage EXCEPT ![task_id] =
                                          [@ EXCEPT !.status = "processing",
                                                    !.progress = 5]]
                   /\ resultDirs' = resultDirs \cup {task_id}
                   /\ processing_semaphore' = processing_semaphore - 1
                   /\ pc' = [pc EXCEPT ![task_id] = "recheck"]
                   /\ UNCHANGED raised
              ELSE \* 353 raises KeyError, 467 raises it again
                   /\ raised' = raised \cup {task_id}
                   /\ pc' = [pc EXCEPT ![task_id] = "done"]
                   /\ processing_semaphore' = Released(processing_semaphore - 1)
                   /\ UNCHANGED << tasks_storage, resultDirs >>
       ELSE \* 310-348: nothing found, the job is failed at once and the
            \* permit is given back on return
            /\ MarkFailed(task_id, "not_found", FALSE)
            /\ pc' = [pc EXCEPT ![task_id] = "done"]
            /\ processing_semaphore' = Released(processing_semaphore - 1)
            /\ UNCHANGED resultDirs
  /\ attempt' = [attempt EXCEPT ![task_id] = 0]
  /\ refusal' = NoRefusal
  /\ UNCHANGED << configVars, offApiVars, apiState, nextId, uploads, artifacts, tempWav,
                  pfSuccess, histVars, deletedQueued >>

\* api.py:380-386  one pass of the re-check loop up to the sleep
pt_recheck(task_id) ==
  /\ pc[task_id] = "recheck"
  /\ checks' = [checks EXCEPT ![task_id] = @ + 1]
  /\ IF task_id \in uploads
       THEN \* 381-383, 407-425: found, process_file handed to the executor
            /\ pc' = [pc EXCEPT ![task_id] = "convert"]
            /\ UNCHANGED waits
       ELSE \* 385-386
            /\ pc' = [pc EXCEPT ![task_id] = "sleeping"]
            /\ waits' = [waits EXCEPT ![task_id] = @ + 1]
  /\ refusal' = NoRefusal
  /\ UNCHANGED << configVars, offApiVars, apiState, processing_semaphore, nextId,
                  tasks_storage, diskVars, attempt, pfSuccess, converter, asr,
                  calls, raised, deletedQueued >>

\* api.py:386-405  the sleep is over: next pass, or the last glob
pt_wake(task_id) ==
  /\ pc[task_id] = "sleeping"
  /\ attempt' = [attempt EXCEPT ![task_id] = @ + 1]
  /\ IF attempt[task_id] + 1 < RETRY_ATTEMPTS
       THEN /\ pc' = [pc EXCEPT ![task_id] = "recheck"]
            /\ UNCHANGED << tasks_storage, raised, processing_semaphore >>
       ELSE IF task_id \in uploads
       THEN \* 390-394
            /\ pc' = [pc EXCEPT ![task_id] = "convert"]
            /\ UNCHANGED << tasks_storage, raised, processing_semaphore >>
       ELSE \* 396-405
            /\ MarkFailed(task_id, "unavailable", FALSE)
            /\ pc' = [pc EXCEPT ![task_id] = "done"]
            /\ processing_semaphore' = Released(processing_semaphore)
  /\ refusal' = NoRefusal
  /\ UNCHANGED << configVars, offApiVars, apiState, nextId, diskVars, pfSuccess, histVars,
                  deletedQueued >>

\* what convert_to_wav can do with an input that exists
\* (audio_converter.py:128-192): "ok" returns the path of the written file,
\* "failed" returns None with nothing written, "failed_partial" returns None
\* after ffmpeg created the output file and then exited non-zero
ConverterOutcomes == {"ok", "failed", "failed_partial"}

\* what transcribe_longform can do (processor.py:149-170)
AsrOutcomes == {"segments", "empty", "value_error", "exception"}

\* a conversion stage without the early return
ConversionOkAlways(result) == TRUE

\* processor.py:126  if not temp_audio: return result
ConversionOk(result) == result = "ok"

\* processor.py:93-129 and audio_converter.py:95-192  conversion stage
pf_convert(task_id, outcome) ==
  /\ pc[task_id] = "convert"
  /\ LET result == IF task_id \in uploads THEN outcome ELSE "missing"
     IN /\ converter' = [converter EXCEPT ![task_id] = result]
        /\ tempWav' = IF result \in {"ok", "failed_partial"}
                        THEN tempWav \cup {task_id} ELSE tempWav
        /\ pc' = [pc EXCEPT ![task_id] =
                    IF ConversionOk(result) THEN "transcribe" ELSE "returned"]
  /\ calls' = [calls EXCEPT ![task_id].conv = @ + 1]
  /\ tasks_storage' = progress_callback(task_id, 20)
  /\ pfSuccess' = [pfSuccess EXCEPT ![task_id] = FALSE]
  /\ refusal' = NoRefusal
  /\ UNCHANGED << configVars, offApiVars, apiState, processing_semaphore, nextId, uploads,
                  resultDirs, artifacts, attempt, asr, waits, checks, raised,
                  deletedQueued >>

\* processor.py:357-363  finally: the temporary file is removed when
\* temp_audio names it
RemoveTemp(task_id) == tempWav \ {task_id}

\* an ASR call that handles ValueError only
AsrFailedOnlyValueError(outcome) == outcome = "value_error"

\* processor.py:151-170  except ValueError / except Exception: return result
AsrFailed(outcome) == outcome \in {"value_error", "exception"}

\* processor.py:131-173  credential check and the ASR call
pf_transcribe(task_id, outcome) ==
  /\ pc[task_id] = "transcribe"
  /\ IF ~hfTokenValid
       THEN \* 135-143
            /\ asr' = [asr EXCEPT ![task_id] = "no_token"]
            /\ tempWav' = RemoveTemp(task_id)
            /\ pc' = [pc EXCEPT ![task_id] = "returned"]
            /\ UNCHANGED << calls, tasks_storage >>
       ELSE /\ asr' = [asr EXCEPT ![task_id] = outcome]
            /\ calls' = [calls EXCEPT ![task_id].asr = @ + 1]
            /\ IF AsrFailed(outcome)
                 THEN \* 151-170
                      /\ tempWav' = RemoveTemp(task_id)
                      /\ pc' = [pc EXCEPT ![task_id] = "returned"]
                      /\ tasks_storage' = progress_callback(task_id, 20)
                 ELSE \* 172-173
                      /\ pc' = [pc EXCEPT ![task_id] = "render"]
                      /\ tasks_storage' = progress_callback(task_id, 95)
                      /\ UNCHANGED tempWav
  /\ refusal' = NoRefusal
  /\ UNCHANGED << configVars, offApiVars, apiState, processing_semaphore, nextId, uploads,
                  resultDirs, artifacts, attempt, pfSuccess, converter, waits,
                  checks, raised, deletedQueued >>

\* processor.py:201-365  rendering of the requested formats (the API asks for
\* the default ['txt']) and the clean-up; a write error is caught at 349
pf_render(task_id, writeFails) ==
  /\ pc[task_id] = "render"
  /\ IF writeFails
       THEN UNCHANGED << artifacts, pfSuccess >>
       ELSE /\ artifacts' = artifacts \cup {task_id}
            /\ pfSuccess' = [pfSuccess EXCEPT ![task_id] = TRUE]
  /\ tempWav' = RemoveTemp(task_id)
  /\ pc' = [pc EXCEPT ![task_id] = "returned"]
  /\ refusal' = NoRefusal
  /\ UNCHANGED << configVars, offApiVars, apiState, processing_semaphore, nextId,
                  tasks_storage, uploads, resultDirs, attempt, histVars, raised,
                  deletedQueued >>

\* a clean-up that removes the upload whatever the job ended as
UploadsAfterAlways(task_id, task_status) == uploads \ {task_id}

\* api.py:475-497  finally: the upload is removed only when the status read
\* back from the store is 'completed'
UploadsAfter(task_id, task_status) ==
  IF task_status = "completed" THEN uploads \ {task_id} ELSE uploads

\* api.py:427-497  process_file has returned: record the outcome, drop the
\* upload of a completed job, give the permit back
pt_finish(task_id) ==
  /\ pc[task_id] = "returned"
  /\ IF pfSuccess[task_id]
       THEN IF task_id \in DOMAIN tasks_storage
              THEN \* 445-454, 479-493
                   /\ tasks_storage' = [tasks_storage EXCEPT ![task_id] =
                                          [@ EXCEPT !.status = "completed",
                                                    !.progress = 100]]
                   /\ uploads' = UploadsAfter(task_id, "completed")
                   /\ UNCHANGED raised
              ELSE /\ raised' = raised \cup {task_id}
                   /\ uploads' = UploadsAfter(task_id, "unknown")
                   /\ UNCHANGED tasks_storage
       ELSE \* 458-473
            /\ MarkFailed(task_id, "processing_failed", TRUE)
            /\ uploads' = UploadsAfter(task_id, IF task_id \in DOMAIN tasks_storage
                                                  THEN "failed" ELSE "unknown")
  /\ processing_semaphore' = Released(processing_semaphore)
  /\ pc' = [pc EXCEPT ![task_id] = "done"]
  /\ refusal' = NoRefusal
  /\ UNCHANGED << configVars, offApiVars, apiState, nextId, resultDirs, artifacts, tempWav,
                  attempt, pfSuccess, histVars, deletedQueued >>

\* api.py:272-497  the steps of one background task
process_transcription(task_id) ==
  \/ pt_start(task_id)
  \/ pt_recheck(task_id)
  \/ pt_wake(task_id)
  \/ pt_finish(task_id)

\* processor.py:58-365  the steps of one process_file call
process_file(task_id) ==
  \/ \E outcome \in ConverterOutcomes : pf_convert(task_id, outcome)
  \/ \E outcome \in AsrOutcomes : pf_transcribe(task_id, outcome)
  \/ \E writeFails \in BOOLEAN : pf_render(task_id, writeFails)

StatusFilters == {"None", "all", "completed", "failed", "pending", "other"}

Next ==
  \/ lifespan
  \/ \E supported \in BOOLEAN, saved \in BOOLEAN : upload_file(supported, saved)
  \/ \E files \in Batches : upload_files_batch(files)
  \/ \E task_id \in Ids : delete_task(task_id)
  \/ \E status_filter \in StatusFilters : delete_all_tasks(status_filter)
  \/ \E task_id \in Ids : upload_lost(task_id)
  \/ \E task_id \in Ids : process_transcription(task_id)
  \/ \E task_id \in Ids : process_file(task_id)

Spec == Init /\ [][Next]_vars

\* ------------------------------------------------- age-based eviction
\* cleanup_old_tasks is defined by the service and called by none of its
\* handlers; it is followed here as whoever schedules it would run it

\* everything neither the service nor the eviction touches
offEvictVars == << stats, response, callVars, guiVars, mapVars, statVars,
                   workers, cli_files, cli_pc, results >>

\* time goes by: created_at of the oldest task not yet behind the cutoff
\* (api.py:249, now - TASK_CLEANUP_HOURS * 3600) falls behind it; ids are
\* handed out in the order of created_at (api.py:717, 841)
time_passes ==
  /\ apiState = "running"
  /\ Cardinality(aged) < nextId
  /\ aged' = aged \cup {Cardinality(aged) + 1}
  /\ UNCHANGED << hfTokenValid, offEvictVars, apiVars >>

\* api.py:251-255  the tasks created before the cutoff, whatever their status
tasks_to_remove == DOMAIN tasks_storage \cap aged

\* api.py:246-269  the upload file and the result directory of every task
\* created before the cutoff are removed, then its record
cleanup_old_tasks ==
  /\ apiState = "running"
  /\ uploads' = uploads \ tasks_to_remove
  /\ resultDirs' = resultDirs \ tasks_to_remove
  /\ artifacts' = artifacts \ tasks_to_remove
  /\ tasks_storage' = DelKeys(tasks_storage, tasks_to_remove)
  /\ refusal' = NoRefusal
  /\ UNCHANGED << configVars, offEvictVars, aged, apiState, processing_semaphore,
                  nextId, tempWav, pc, attempt, pfSuccess, histVars, raised,
                  deletedQueued >>

NextCleanup ==
  \/ Next
  \/ time_passes
  \/ cleanup_old_tasks

SpecCleanup == Init /\ [][NextCleanup]_vars

\* the service with its scheduling made explicit: the event loop gives every
\* background task its turn, asyncio.Semaphore wakes its waiters when a permit
\* is released (api.py:281), every sleep of the retry loop ends (api.py:318)
\* and every call of process_file returns or raises; requests (submit, delete,
\* loss of an upload file) come whenever the clients send them, or never
SpecLive ==
  /\ Init
  /\ [][Next]_vars
  /\ \A task_id \in Ids :
       WF_vars(process_transcription(task_id) \/ process_file(task_id))

\* ------------------------------------------- process_file called directly
\* (the desktop and command-line front-ends pass the formats and the
\* diarization switch themselves)

\* largest number of segments the ASR engine returns
MaxSeg == 2

Formats == {"txt", "md", "srt", "vtt"}

\* gui/app.py:48  the order of the output_formats dictionary
FormatOrder == << "txt", "md", "srt", "vtt" >>

\* gui/app.py:492-494
get_selected_formats == SelectSeq(FormatOrder, LAMBDA fmt : fmt \in output_formats)

\* a segment text is speech, is blank, or is empty (processor.py:236)
Texts == {"speech", "blank", ""}

\* str.strip() of a segment text
strip(text) == IF text = "blank" THEN "" ELSE text

\* a test that lets whitespace through
SkippedIfEmpty(text) == text = ""

\* processor.py:236, 465, 500, 546  if not text or not text.strip()
Skipped(text) == text = "" \/ strip(text) = ""

\* the texts of the segment lists transcribe_longform can return
SegmentTexts == UNION {[1..n -> Texts] : n \in 0..MaxSeg}

\* processor.py:199, 389, 416  "Спикер №1"
DefaultSpeaker == "speaker_1"

\* diarization.py:286-289, 330  the labels the mapping can give
MappedLabels == {"speaker_1", "speaker_2", "unknown_speaker"}

\* what the diarization of one file can do (processor.py:385-417): the
\* mapping is applied, the manager is not there, diarize raises, or the
\* mapping raises after it has labelled some of the segments
DiarOutcomes == {"mapped", "no_manager", "diarize_raises", "map_raises"}

\* processor.py:388-389  utt['speaker'] = "Спикер №1"
SetDefault(utt) == [utt EXCEPT !.speaker = DefaultSpeaker]

\* an exception handler that leaves the segments as they are
KeepSpeaker(utt) == utt

\* processor.py:414-416  if 'speaker' not in utt: utt['speaker'] = ...
SetDefaultIfMissing(utt) ==
  IF utt.speaker = "none" THEN SetDefault(utt) ELSE utt

\* diarization.py:315-330  the first k segments have been given their label
\* (the dictionaries are updated in place)
LabelPrefix(utterances, k, label) ==
  [i \in DOMAIN utterances |->
     IF i <= k THEN [utterances[i] EXCEPT !.speaker = label]
               ELSE utterances[i]]

\* processor.py:367-417  _apply_diarization
apply_diarization(utterances, diar, k, label) ==
  IF diar = "no_manager"
    THEN [i \in DOMAIN utterances |-> SetDefault(utterances[i])]
  ELSE IF diar = "diarize_raises"
    THEN [i \in DOMAIN utterances |-> SetDefaultIfMissing(utterances[i])]
  ELSE IF diar = "map_raises"
    THEN [i \in DOMAIN utterances |->
            SetDefaultIfMissing(LabelPrefix(utterances, k, label)[i])]
  ELSE LabelPrefix(utterances, Len(utterances), label)

\* processor.py:230-263  the segments that give a line of output
Entries(utterances) ==
  Cardinality({i \in DOMAIN utterances : utterances[i].transcription = "speech"})

\* a renderer that writes nothing when there is nothing to say
FilesOfSpeech(fmt, utterances) ==
  IF Len(utterances) = 0 THEN << >> ELSE << fmt >>

\* processor.py:282-330  the files written for one requested format
FilesOf(fmt, utterances) ==
  IF fmt = "txt"
    THEN << "txt", "timecodes" >> \o
         (IF enable_diarization /\ Entries(utterances) > 0
            THEN << "diarize", "diarize_timecodes" >> ELSE << >>)
    ELSE << fmt >>

\* A rendered file is the sequence of the pieces written: the newline, and
\* the pieces of a line, each one naming its kind, the segment whose text or
\* boundaries it prints, the speaker it names and the number it prints.
Piece(kind, seg, speaker, index) ==
  [kind |-> kind, seg |-> seg, speaker |-> speaker, index |-> index]

Newline == Piece("newline", 0, "none", 0)

RECURSIVE Join(_)
\* "\n".join(lines); an empty line has no piece
Join(lines) ==
  IF lines = << >> THEN << >>
  ELSE IF Len(lines) = 1 THEN Head(lines)
  ELSE Head(lines) \o << Newline >> \o Join(Tail(lines))

\* the text of segment i
TextOf(i) == Piece("text", i, "none", 0)

\* "[start - end] " or "start --> end" of segment i
TimesOf(i) == Piece("timestamps", i, "none", 0)

\* a timestamped line that names the speaker of the segment
StampedWithSpeaker(utterances, i) ==
  << TimesOf(i), Piece("speaker", i, utterances[i].speaker, 0), TextOf(i) >>

\* processor.py:244-246  f"[{start} - {end}] {text}"
StampedPlain(utterances, i) == << TimesOf(i), TextOf(i) >>

RECURSIVE full_text_lines_plain(_, _)
\* processor.py:230-243
full_text_lines_plain(utterances, i) ==
  IF i > Len(utterances) THEN << >>
  ELSE IF Skipped(utterances[i].transcription)
    THEN full_text_lines_plain(utterances, i + 1)
    ELSE << << TextOf(i) >> >> \o full_text_lines_plain(utterances, i + 1)

RECURSIVE timecoded_lines_plain(_, _)
\* processor.py:230-246
timecoded_lines_plain(utterances, i) ==
  IF i > Len(utterances) THEN << >>
  ELSE IF Skipped(utterances[i].transcription)
    THEN timecoded_lines_plain(utterances, i + 1)
    ELSE << StampedPlain(utterances, i) >>
           \o timecoded_lines_plain(utterances, i + 1)

RECURSIVE full_text_lines_headed(_, _, _)
\* every segment under a heading of its own
full_text_lines_headed(utterances, i, current_speaker) ==
  IF i > Len(utterances) THEN << >>
  ELSE IF Skipped(utterances[i].transcription)
    THEN full_text_lines_headed(utterances, i + 1, current_speaker)
    ELSE (IF current_speaker # "none" THEN << << >> >> ELSE << >>)
           \o << << Piece("speaker", i, utterances[i].speaker, 0) >>,
                  << TextOf(i) >> >>
           \o full_text_lines_headed(utterances, i + 1, utterances[i].speaker)

RECURSIVE full_text_lines_diarized(_, _, _)
\* processor.py:248-259  a heading where the speaker changes, an empty line
\* before every heading but the first
full_text_lines_diarized(utterances, i, current_speaker) ==
  IF i > Len(utterances) THEN << >>
  ELSE IF Skipped(utterances[i].transcription)
    THEN full_text_lines_diarized(utterances, i + 1, current_speaker)
  ELSE IF enable_diarization /\ utterances[i].speaker # "none"
    THEN (IF utterances[i].speaker # current_speaker
            THEN (IF current_speaker # "none" THEN << << >> >> ELSE << >>)
                   \o << << Piece("speaker", i, utterances[i].speaker, 0) >> >>
            ELSE << >>)
           \o << << TextOf(i) >> >>
           \o full_text_lines_diarized(utterances, i + 1, utterances[i].speaker)
    ELSE << << TextOf(i) >> >>
           \o full_text_lines_diarized(utterances, i + 1, current_speaker)

RECURSIVE timecoded_lines_diarized(_, _)
\* processor.py:248-263  f"[{start} - {end}] {speaker}: {text}"
timecoded_lines_diarized(utterances, i) ==
  IF i > Len(utterances) THEN << >>
  ELSE IF Skipped(utterances[i].transcription)
    THEN timecoded_lines_diarized(utterances, i + 1)
  ELSE IF enable_diarization /\ utterances[i].speaker # "none"
    THEN << << TimesOf(i), Piece("speaker", i, utterances[i].speaker, 0),
               TextOf(i) >> >>
           \o timecoded_lines_diarized(utterances, i + 1)
    ELSE << << TimesOf(i), TextOf(i) >> >>
           \o timecoded_lines_diarized(utterances, i + 1)

\* processor.py:474-478, 507-511  the text behind the name of its speaker,
\* if the segment has one
SpokenText(utterances, i) ==
  IF utterances[i].speaker # "none"
    THEN << Piece("speaker", i, utterances[i].speaker, 0), TextOf(i) >>
    ELSE << TextOf(i) >>

RECURSIVE generate_srt_by_position(_, _, _)
\* the blocks numbered by the place of their segment in the list
generate_srt_by_position(utterances, i, index) ==
  IF i > Len(utterances) THEN << >>
  ELSE IF Skipped(utterances[i].transcription)
    THEN generate_srt_by_position(utterances, i + 1, index + 1)
    ELSE << << Piece("index", i, "none", index) >>, << TimesOf(i) >>,
            SpokenText(utterances, i), << >> >>
           \o generate_srt_by_position(utterances, i + 1, index + 1)

RECURSIVE generate_srt(_, _, _)
\* processor.py:451-485  the lines of _generate_srt from segment i on, the
\* next block numbered index
generate_srt(utterances, i, index) ==
  IF i > Len(utterances) THEN << >>
  ELSE IF Skipped(utterances[i].transcription)
    THEN generate_srt(utterances, i + 1, index)
    ELSE << << Piece("index", i, "none", index) >>, << TimesOf(i) >>,
            SpokenText(utterances, i), << >> >>
           \o generate_srt(utterances, i + 1, index + 1)

RECURSIVE vtt_cues(_, _)
\* processor.py:499-514
vtt_cues(utterances, i) ==
  IF i > Len(utterances) THEN << >>
  ELSE IF Skipped(utterances[i].transcription)
    THEN vtt_cues(utterances, i + 1)
    ELSE << << TimesOf(i) >>, SpokenText(utterances, i), << >> >>
           \o vtt_cues(utterances, i + 1)

\* processor.py:487-518  "WEBVTT", an empty line, the cues
generate_vtt(utterances) ==
  << << Piece("header", 0, "none", 0) >>, << >> >> \o vtt_cues(utterances, 1)

RECURSIVE markdown_items(_, _, _)
\* processor.py:544-564  a heading between empty lines where the speaker
\* changes, one list item for a segment
markdown_items(utterances, i, current_speaker) ==
  IF i > Len(utterances) THEN << >>
  ELSE IF Skipped(utterances[i].transcription)
    THEN markdown_items(utterances, i + 1, current_speaker)
  ELSE IF utterances[i].speaker # "none"
    THEN (IF utterances[i].speaker # current_speaker
            THEN << << >>, << Piece("speaker", i, utterances[i].speaker, 0) >>,
                    << >> >>
            ELSE << >>)
           \o << << TimesOf(i), TextOf(i) >> >>
           \o markdown_items(utterances, i + 1, utterances[i].speaker)
    ELSE << << TimesOf(i), TextOf(i) >> >>
           \o markdown_items(utterances, i + 1, current_speaker)

\* processor.py:520-566  the title, the credit and the rule, an empty line
\* after each, then the items
generate_markdown(utterances) ==
  << << Piece("header", 0, "none", 1) >>, << >>,
     << Piece("header", 0, "none", 2) >>, << >>,
     << Piece("header", 0, "none", 3) >>, << >> >>
    \o markdown_items(utterances, 1, "none")

\* processor.py:282-330  what is written into the file of that name; no
\* segments at all give empty texts (processor.py:215-218)
ContentOf(name, utterances) ==
  IF name = "txt" THEN Join(full_text_lines_plain(utterances, 1))
  ELSE IF name = "timecodes" THEN Join(timecoded_lines_plain(utterances, 1))
  ELSE IF name = "diarize"
    THEN Join(full_text_lines_diarized(utterances, 1, "none"))
  ELSE IF name = "diarize_timecodes"
    THEN Join(timecoded_lines_diarized(utterances, 1))
  ELSE IF name = "md" THEN Join(generate_markdown(utterances))
  ELSE IF name = "srt" THEN Join(generate_srt(utterances, 1, 1))
  ELSE Join(generate_vtt(utterances))

RECURSIVE RenderList(_, _)
\* processor.py:280-330  for fmt in output_formats: the files in write order
RenderList(formats, utterances) ==
  IF formats = << >> THEN << >>
  ELSE FilesOf(Head(formats), utterances) \o RenderList(Tail(formats), utterances)

\* a call that hands every transcript to the diarization engine, an empty
\* one included
InvokedEager(conv, outcome, texts, diar) ==
  IF ~ConversionOk(conv) \/ ~hfTokenValid THEN << "convert" >>
  ELSE IF AsrFailed(outcome) THEN << "convert", "transcribe" >>
  ELSE << "convert", "transcribe" >>
         \o (IF enable_diarization /\ diar # "no_manager"
               THEN << "diarize" >> ELSE << >>)
         \o << "render" >>

\* processor.py:122, 150, 185-189, 280-330, 383-400  the collaborators one
\* call invokes, in the order of their invocation: convert_to_wav,
\* transcribe_longform, the diarization engine, the writing of the files
Invoked(conv, outcome, texts, diar) ==
  IF ~ConversionOk(conv) \/ ~hfTokenValid THEN << "convert" >>
  ELSE IF AsrFailed(outcome) THEN << "convert", "transcribe" >>
  ELSE << "convert", "transcribe" >>
         \o (IF enable_diarization /\ Len(texts) > 0 /\ diar # "no_manager"
               THEN << "diarize" >> ELSE << >>)
         \o << "render" >>

\* processor.py:58-365  one process_file call.  conv is what the converter
\* did, outcome and texts what the ASR engine did, diar, k and label what
\* the diarization did; failAt = 0 when every write succeeds, otherwise the
\* number of the write that raises (caught at 349).
ProcessFile(conv, outcome, texts, diar, k, label, failAt) ==
  IF ~ConversionOk(conv)
    THEN [NoResult EXCEPT !.returned = TRUE,
                          !.invoked = Invoked(conv, outcome, texts, diar)]
  ELSE IF ~hfTokenValid \/ AsrFailed(outcome)
    THEN [NoResult EXCEPT !.returned = TRUE, !.converted = TRUE,
                          !.invoked = Invoked(conv, outcome, texts, diar)]
  ELSE
    LET raw == [i \in DOMAIN texts |->
                  [transcription |-> texts[i], speaker |-> "none"]]
        utterances == IF enable_diarization /\ Len(raw) > 0
                        THEN apply_diarization(raw, diar, k, label)
                        ELSE raw
        files == RenderList(get_selected_formats, utterances)
        written == IF failAt = 0 \/ failAt > Len(files)
                     THEN Len(files) ELSE failAt - 1
    IN [returned |-> TRUE,
        success |-> written = Len(files),
        converted |-> TRUE,
        transcribed |-> TRUE,
        utterances |-> utterances,
        saved |-> SubSeq(files, 1, written),
        entries |-> Entries(utterances),
        write_error |-> written # Len(files),
        diarization |-> IF enable_diarization /\ Len(raw) > 0
                          THEN diar ELSE "not_run",
        content |-> [name \in Range(SubSeq(files, 1, written)) |->
                       ContentOf(name, utterances)],
        invoked |-> Invoked(conv, outcome, texts, diar)]

\* the segment lists that go with an ASR outcome
TextsOf(outcome) ==
  IF outcome = "segments" THEN {t \in SegmentTexts : Len(t) > 0}
  ELSE {<< >>}

\* the call of gui/app.py:880-890, with the switches the
\* front-end holds.  One call is followed: calls share no state, the result
\* dictionary is built anew at processor.py:102.
process_file_direct(conv, outcome, texts, diar, k, label, failAt) ==
  /\ ~lastResult.returned
  /\ lastResult' = ProcessFile(conv, outcome, texts, diar, k, label, failAt)
  /\ UNCHANGED << hfTokenValid, output_formats, enable_diarization >>

InitFile ==
  /\ hfTokenValid \in BOOLEAN
  /\ output_formats \in (SUBSET Formats) \ {{}}
  /\ enable_diarization \in BOOLEAN
  /\ lastResult = NoResult
  /\ stats = << >>
  /\ response = NoResponse
  /\ ApiIdle
  /\ GuiIdle
  /\ MapIdle

NextFile ==
  \E conv \in ConverterOutcomes, outcome \in AsrOutcomes, diar \in DiarOutcomes,
     k \in 0..(MaxSeg - 1), label \in MappedLabels, failAt \in 0..Len(FormatOrder) :
    \E texts \in TextsOf(outcome) :
      /\ process_file_direct(conv, outcome, texts, diar, k, label, failAt)
      /\ UNCHANGED << apiVars, stats, response, guiVars, mapVars, statVars, lateVars >>

SpecFile == InitFile /\ [][NextFile]_vars

\* ------------------------------------------------ the desktop front-end
\* GigaTranscriberApp: the worker thread runs process_files over the batch,
\* a timer of the window redraws the progress once a second.  Progress is
\* kept in thousandths of the bar.

\* largest number of files in a batch
MaxFiles == 2
\* seconds followed after the start of a file
MaxTicks == 3
\* file_estimates[filepath], in seconds (estimate_batch_time gives every
\* file an estimate above 0, processing_stats.py:109-176)
EstimatedTime == 2

Min(a, b) == IF a < b THEN a ELSE b

\* gui/app.py:606-657  what update_progress_display puts on the bar, given
\* the values of files_processed, fileStarted and elapsed it reads
Shown(processed, started, spent) ==
  LET file_part == IF processed < Len(files_to_process) /\ started
                     THEN IF spent * 10 >= EstimatedTime * 8
                            THEN Min(950, (spent * 1000) \div EstimatedTime)
                            ELSE Min(900, (spent * 800) \div EstimatedTime)
                     ELSE 0
  IN Min(990, (processed * 1000 + file_part) \div total_files)

InitGui ==
  /\ hfTokenValid \in BOOLEAN
  /\ output_formats \in (SUBSET Formats) \ {{}}
  /\ enable_diarization \in BOOLEAN
  /\ lastResult = NoResult
  /\ files_to_process \in {[i \in 1..n |-> i] : n \in 0..MaxFiles}
  /\ is_processing = FALSE
  /\ total_files = 0
  /\ files_processed = 0
  /\ fileStarted = FALSE
  /\ elapsed = 0
  /\ fileIndex = 0
  /\ guiPc = "ready"
  /\ progress_bar = 0
  /\ shownBefore = 0
  /\ stats = << >>
  /\ response = NoResponse
  /\ ApiIdle
  /\ MapIdle

\* what the front-end never touches
offGuiVars == << hfTokenValid, apiVars, response, callVars, mapVars, statVars, lateVars >>

\* gui/app.py:768-835
start_processing_thread ==
  /\ guiPc = "ready"
  /\ ~is_processing
  /\ IF files_to_process = << >>
       THEN \* 773-776: nothing selected, a warning is shown
            UNCHANGED << is_processing, total_files, files_processed,
                         fileStarted, elapsed, guiPc, progress_bar, shownBefore >>
       ELSE /\ is_processing' = TRUE
            /\ files_processed' = 0
            /\ total_files' = Len(files_to_process)
            /\ fileStarted' = FALSE
            /\ elapsed' = 0
            /\ progress_bar' = 0
            /\ shownBefore' = 0
            /\ guiPc' = "load_model"
  /\ UNCHANGED << offGuiVars, stats, files_to_process, fileIndex >>

\* gui/app.py:839-857  the worker thread loads the model
load_model(loaded) ==
  /\ guiPc = "load_model"
  /\ IF loaded
       THEN /\ guiPc' = "next_file"
            /\ fileIndex' = 1
            /\ UNCHANGED is_processing
       ELSE /\ guiPc' = "ready"
            /\ is_processing' = FALSE
            /\ UNCHANGED fileIndex
  /\ UNCHANGED << offGuiVars, stats, files_to_process, total_files,
                  files_processed, fileStarted, elapsed, progress_bar,
                  shownBefore >>

\* gui/app.py:875, 732-745  update_progress(i): the clock of the file is
\* started and the bar is redrawn
update_progress ==
  /\ guiPc = "next_file"
  /\ fileStarted' = TRUE
  /\ elapsed' = 0
  /\ shownBefore' = progress_bar
  /\ progress_bar' = Shown(files_processed, TRUE, 0)
  /\ guiPc' = "in_file"
  /\ UNCHANGED << offGuiVars, stats, files_to_process, is_processing,
                  total_files, files_processed, fileIndex >>

\* a second passes
tick ==
  /\ is_processing
  /\ fileStarted
  /\ elapsed < MaxTicks
  /\ elapsed' = elapsed + 1
  /\ UNCHANGED << offGuiVars, stats, files_to_process, is_processing,
                  total_files, files_processed, fileStarted, fileIndex, guiPc,
                  progress_bar, shownBefore >>

\* gui/app.py:606-657, 747-760  the timer redraws the bar
update_progress_display ==
  /\ is_processing
  /\ fileStarted
  /\ total_files # 0
  /\ shownBefore' = progress_bar
  /\ progress_bar' = Shown(files_processed, fileStarted, elapsed)
  /\ UNCHANGED << offGuiVars, stats, files_to_process, is_processing,
                  total_files, files_processed, fileStarted, elapsed,
                  fileIndex, guiPc >>

\* processing_stats.py:37-60  add_processing_record appends to the history
add_processing_record(file, success) ==
  Append(stats, [file |-> file, success |-> success])

\* gui/app.py:880-924  process_file returns, or raises before its own
\* handlers (caught at 920): the record is added, a success is counted, the
\* loop goes on
file_returns(raises, conv, outcome, texts, diar, failAt) ==
  /\ guiPc = "in_file"
  /\ LET r == ProcessFile(conv, outcome, texts, diar, 0, DefaultSpeaker, failAt)
     IN IF raises
          THEN UNCHANGED << stats, files_processed >>
          ELSE /\ stats' = add_processing_record(fileIndex, r.success)
               /\ files_processed' = IF r.success THEN files_processed + 1
                                                   ELSE files_processed
  /\ fileIndex' = fileIndex + 1
  /\ guiPc' = IF fileIndex = total_files THEN "loop_done" ELSE "next_file"
  /\ UNCHANGED << offGuiVars, files_to_process, is_processing, total_files,
                  fileStarted, elapsed, progress_bar, shownBefore >>

\* gui/app.py:939-963  after the loop: the bar is set to 1.0
finish ==
  /\ guiPc = "loop_done"
  /\ shownBefore' = progress_bar
  /\ progress_bar' = 1000
  /\ is_processing' = FALSE
  /\ guiPc' = "finished"
  /\ UNCHANGED << offGuiVars, stats, files_to_process, total_files,
                  files_processed, fileStarted, elapsed, fileIndex >>

\* gui/app.py:837-974
process_files ==
  \/ \E loaded \in BOOLEAN : load_model(loaded)
  \/ update_progress
  \/ \E raises \in BOOLEAN, conv \in ConverterOutcomes, outcome \in AsrOutcomes,
        diar \in DiarOutcomes, failAt \in 0..1 :
       \E texts \in TextsOf(outcome) :
         file_returns(raises, conv, outcome, texts, diar, failAt)
  \/ finish

NextGui ==
  \/ start_processing_thread
  \/ process_files
  \/ tick
  \/ update_progress_display

SpecGui == InitGui /\ [][NextGui]_vars

\* ------------------------------------------ the desktop worker threads
\* start, clear-all and file selection of the main window, and the worker
\* threads they start (gui/app.py; gui/app_qt.py has the same handlers)

\* largest number of worker threads started
MaxThreads == 2

\* a thread that has been started and has not left process_files
Running == {t \in DOMAIN workers : workers[t].pc # "ended"}

InitThreads ==
  /\ hfTokenValid \in BOOLEAN
  /\ stats = << >>
  /\ response = NoResponse
  /\ ApiIdle
  /\ CallIdle
  /\ GuiIdle
  /\ StatIdle
  /\ pipeline_turns = << >>
  /\ speaker_segments = << >>
  /\ transcription_segments = << >>
  /\ EvictIdle
  /\ ThreadIdle
  /\ CliIdle

\* what the handlers of this section never touch
offThreadVars == << hfTokenValid, apiVars, stats, response, callVars, mapVars,
                    statVars, aged, cli_files, cli_pc, results, elapsed,
                    fileIndex, guiPc, shownBefore >>

\* gui/app.py:365-379  the file dialog returns n files: the list is replaced
select_files(n) ==
  /\ files_to_process' = [i \in 1..n |-> i]
  /\ UNCHANGED << offThreadVars, workers, is_processing, total_files,
                  files_processed, fileStarted, progress_bar >>

\* gui/app.py:770-771  the test the start handler makes before anything else
NoBatchFlagged == ~is_processing

\* gui/app.py:768-833  the start button: a new thread unless the flag says a
\* batch is running or nothing is selected
press_start ==
  /\ Len(workers) < MaxThreads
  /\ IF ~NoBatchFlagged \/ files_to_process = << >>
       THEN \* 770-776
            UNCHANGED << workers, is_processing, total_files, files_processed,
                         fileStarted, progress_bar >>
       ELSE /\ is_processing' = TRUE
            /\ files_processed' = 0
            /\ total_files' = Len(files_to_process)
            /\ fileStarted' = FALSE
            /\ progress_bar' = 0
            /\ workers' = Append(workers, [pc |-> "load_model", left |-> 0])
  /\ UNCHANGED << offThreadVars, files_to_process >>

\* gui/app.py:496-545  the clear button; while a batch is flagged the user is
\* asked first.  The flag is reset and the list replaced by an empty one;
\* no thread is stopped or waited for.
clear_all(confirmed) ==
  /\ IF is_processing /\ ~confirmed
       THEN \* 499-504
            UNCHANGED << files_to_process, is_processing, total_files,
                         files_processed, fileStarted, progress_bar >>
       ELSE /\ is_processing' = FALSE
            /\ files_to_process' = << >>
            /\ files_processed' = 0
            /\ total_files' = 0
            /\ fileStarted' = FALSE
            /\ progress_bar' = 0
  /\ UNCHANGED << offThreadVars, workers >>

\* gui/app.py:839-874  the thread loads the model and starts the loop over
\* the list files_to_process names at that moment
worker_load_model(t, loaded) ==
  /\ t \in DOMAIN workers
  /\ workers[t].pc = "load_model"
  /\ IF loaded
       THEN /\ workers' = [workers EXCEPT ![t] =
                             [pc |-> "next_file", left |-> Len(files_to_process)]]
            /\ UNCHANGED is_processing
       ELSE \* 842-850
            /\ workers' = [workers EXCEPT ![t].pc = "ended"]
            /\ is_processing' = FALSE
  /\ UNCHANGED << offThreadVars, files_to_process, total_files, files_processed,
                  fileStarted, progress_bar >>

\* gui/app.py:874-891  the next file of the thread's list: update_progress,
\* then process_file is entered
worker_begin_file(t) ==
  /\ t \in DOMAIN workers
  /\ workers[t].pc = "next_file"
  /\ workers[t].left > 0
  /\ workers' = [workers EXCEPT ![t].pc = "in_file"]
  /\ fileStarted' = TRUE
  /\ UNCHANGED << offThreadVars, files_to_process, is_processing, total_files,
                  files_processed, progress_bar >>

\* gui/app.py:879-926  process_file has returned, or raised (920-926)
worker_file_returns(t, success) ==
  /\ t \in DOMAIN workers
  /\ workers[t].pc = "in_file"
  /\ workers' = [workers EXCEPT ![t] = [pc |-> "next_file", left |-> @.left - 1]]
  /\ files_processed' = IF success THEN files_processed + 1 ELSE files_processed
  /\ UNCHANGED << offThreadVars, files_to_process, is_processing, total_files,
                  fileStarted, progress_bar >>

\* gui/app.py:940-967  the list is exhausted: the bar is filled and the flag
\* reset
worker_finish(t) ==
  /\ t \in DOMAIN workers
  /\ workers[t].pc = "next_file"
  /\ workers[t].left = 0
  /\ workers' = [workers EXCEPT ![t].pc = "ended"]
  /\ progress_bar' = 1000
  /\ is_processing' = FALSE
  /\ UNCHANGED << offThreadVars, files_to_process, total_files, files_processed,
                  fileStarted >>

NextThreads ==
  \/ \E n \in 1..MaxFiles : select_files(n)
  \/ press_start
  \/ \E confirmed \in BOOLEAN : clear_all(confirmed)
  \/ \E t \in 1..MaxThreads, loaded \in BOOLEAN : worker_load_model(t, loaded)
  \/ \E t \in 1..MaxThreads : worker_begin_file(t)
  \/ \E t \in 1..MaxThreads, success \in BOOLEAN : worker_file_returns(t, success)
  \/ \E t \in 1..MaxThreads : worker_finish(t)

SpecThreads == InitThreads /\ [][NextThreads]_vars

\* -------------------------------------------- the command-line batch
\* cli.py process_files_with_progress over a list of files

\* largest number of files on the command line
MaxCliFiles == 3

\* processor.py:100-110, 336-352  what process_file returns for a file: the
\* success flag and the duration ffprobe reported, 0 when it reported none
CliOutcomes == [success : BOOLEAN, media_duration : {0, 30}]

CliLists == UNION {[1..n -> CliOutcomes] : n \in 0..MaxCliFiles}

\* processing_stats.py:14-200  ProcessingStats defines add_processing_record,
\* estimate_processing_time, estimate_batch_time and get_statistics_summary;
\* it has no attribute add_record
HasAddRecord == FALSE

InitCli ==
  /\ hfTokenValid = TRUE
  /\ stats = << >>
  /\ response = NoResponse
  /\ ApiIdle
  /\ CallIdle
  /\ GuiIdle
  /\ StatIdle
  /\ pipeline_turns = << >>
  /\ speaker_segments = << >>
  /\ transcription_segments = << >>
  /\ EvictIdle
  /\ ThreadIdle
  /\ cli_files \in CliLists
  /\ cli_pc = "not_called"
  /\ results = << >>

\* what the command-line loop never touches
offCliVars == << hfTokenValid, apiVars, stats, response, callVars, guiVars,
                 mapVars, statVars, aged, workers >>

\* cli.py:279-300  the call: the empty result list and the progress display
cli_call ==
  /\ cli_pc = "not_called"
  /\ cli_pc' = "loop"
  /\ results' = << >>
  /\ UNCHANGED << offCliVars, cli_files >>

\* cli.py:302-329  the next file of the list is handed to process_file
cli_process_file ==
  /\ cli_pc = "loop"
  /\ Len(results) < Len(cli_files)
  /\ cli_pc' = "in_file"
  /\ UNCHANGED << offCliVars, cli_files, results >>

\* cli.py:324-342  process_file has returned: the result is appended, and
\* for a success with a known duration stats_manager.add_record is called;
\* the AttributeError of that call is caught nowhere in the function
cli_file_returns ==
  /\ cli_pc = "in_file"
  /\ LET i == Len(results) + 1
         result == [file |-> i, success |-> cli_files[i].success,
                    media_duration |-> cli_files[i].media_duration]
     IN /\ results' = Append(results, result)
        /\ cli_pc' = IF result.success /\ result.media_duration > 0 /\ ~HasAddRecord
                       THEN "raised"
                       ELSE "loop"
  /\ UNCHANGED << offCliVars, cli_files >>

\* cli.py:302, 344  the list is exhausted: the results are returned
cli_return ==
  /\ cli_pc = "loop"
  /\ Len(results) = Len(cli_files)
  /\ cli_pc' = "returned"
  /\ UNCHANGED << offCliVars, cli_files, results >>

NextCli ==
  \/ cli_call
  \/ cli_process_file
  \/ cli_file_returns
  \/ cli_return

SpecCli == InitCli /\ [][NextCli]_vars

\* ------------------------------------------------- the speaker mapping
\* DiarizationManager.map_speakers_to_transcription over whole seconds

\* latest second of the recording
MaxTime == 5
\* largest number of speaker turns
MaxTurns == 2
\* number of transcript segments mapped in one call
MaxMapSeg == 1

\* diarization.py:286-289  the names _rename_speakers gives, in the order
\* of first appearance
SpeakerNames == << "speaker_1", "speaker_2" >>

\* diarization.py:21-27  SpeakerSegment; a turn lasts some time
Turns ==
  {[start |-> a, end |-> b, speaker |-> sp] :
     a \in 0..MaxTime, b \in 0..MaxTime, sp \in Range(SpeakerNames)}

\* diarization.py:254-257  what diarize returns: the turns sorted by their
\* start, the first speaker heard named first
TurnLists ==
  {t \in UNION {[1..n -> {u \in Turns : u.start < u.end}] : n \in 0..MaxTurns} :
     /\ \A i \in DOMAIN t : \A j \in DOMAIN t : i < j => t[i].start <= t[j].start
     /\ (Len(t) > 0 => t[1].speaker = SpeakerNames[1])}

\* the transcript segments of the ASR engine, one after the other in the
\* recording: 'boundaries' and no 'speaker'
SegmentLists ==
  [1..MaxMapSeg -> {[transcription |-> "speech", start |-> a, end |-> b,
                      speaker |-> "none"] :
                      a \in 0..MaxTime, b \in 0..MaxTime}]

InitMap ==
  /\ StatIdle
  /\ LateIdle
  /\ pipeline_turns = << >>
  /\ speaker_segments \in TurnLists
  /\ transcription_segments \in
       {g \in SegmentLists :
          /\ \A i \in DOMAIN g : g[i].start <= g[i].end
          /\ \A i \in DOMAIN g : \A j \in DOMAIN g :
               i < j => g[i].end <= g[j].start}
  /\ hfTokenValid = TRUE
  /\ stats = << >>
  /\ response = NoResponse
  /\ ApiIdle
  /\ CallIdle
  /\ GuiIdle

RECURSIVE find_speaker_at_time(_, _)
\* diarization.py:334-343  the first turn that holds the moment; the moment
\* is given doubled, so that a midpoint stays a whole number
find_speaker_at_time(time2, segs) ==
  IF segs = << >> THEN "none"
  ELSE IF Head(segs).start * 2 <= time2 /\ time2 <= Head(segs).end * 2
    THEN Head(segs).speaker
    ELSE find_speaker_at_time(time2, Tail(segs))

Max(a, b) == IF a > b THEN a ELSE b

RECURSIVE find_speaker_first_overlap(_, _, _, _, _)
\* the loop stopping at the first turn that overlaps at all
find_speaker_first_overlap(start, end, segs, max_overlap, best_speaker) ==
  IF segs = << >> THEN best_speaker
  ELSE IF Min(end, Head(segs).end) - Max(start, Head(segs).start) > max_overlap
    THEN Head(segs).speaker
    ELSE find_speaker_first_overlap(start, end, Tail(segs), max_overlap,
                                    best_speaker)

RECURSIVE find_speaker_by_overlap(_, _, _, _, _)
\* diarization.py:345-367  the first turn with the longest overlap
find_speaker_by_overlap(start, end, segs, max_overlap, best_speaker) ==
  IF segs = << >> THEN best_speaker
  ELSE LET overlap == Max(0, Min(end, Head(segs).end) - Max(start, Head(segs).start))
       IN IF overlap > max_overlap
            THEN find_speaker_by_overlap(start, end, Tail(segs), overlap,
                                         Head(segs).speaker)
            ELSE find_speaker_by_overlap(start, end, Tail(segs), max_overlap,
                                         best_speaker)

\* diarization.py:315-330  the speaker one segment is given
SpeakerOf(trans_seg, segs) ==
  LET at_midpoint == find_speaker_at_time(trans_seg.start + trans_seg.end, segs)
      speaker == IF at_midpoint = "none"
                   THEN find_speaker_by_overlap(trans_seg.start, trans_seg.end,
                                                segs, 0, "none")
                   ELSE at_midpoint
  IN IF speaker = "none" THEN "unknown_speaker" ELSE speaker

\* a mapping that returns only the segments it found a speaker for
map_speakers_dropping_unknown ==
  /\ \E i \in DOMAIN transcription_segments :
       transcription_segments[i].speaker = "none"
  /\ transcription_segments' =
       SelectSeq([i \in DOMAIN transcription_segments |->
                    [transcription_segments[i] EXCEPT
                       !.speaker = SpeakerOf(transcription_segments[i],
                                             speaker_segments)]],
                 LAMBDA seg : seg.speaker # "unknown_speaker")
  /\ UNCHANGED << hfTokenValid, apiVars, stats, response, callVars, guiVars,
                  statVars, lateVars, pipeline_turns, speaker_segments >>

\* diarization.py:297-332
map_speakers_to_transcription ==
  /\ \E i \in DOMAIN transcription_segments :
       transcription_segments[i].speaker = "none"
  /\ transcription_segments' =
       [i \in DOMAIN transcription_segments |->
          [transcription_segments[i] EXCEPT
             !.speaker = SpeakerOf(transcription_segments[i], speaker_segments)]]
  /\ UNCHANGED << hfTokenValid, apiVars, stats, response, callVars, guiVars,
                  statVars, lateVars, pipeline_turns, speaker_segments >>

NextMap == map_speakers_to_transcription

SpecMap == InitMap /\ [][NextMap]_vars

\* ------------------------------------------------- naming the speakers
\* DiarizationManager.diarize from the turns of the pyannote pipeline on

\* largest number of turns the pipeline gives
MaxRawTurns == 4

\* the labels of pyannote, in the order of their names
RawIds == << "SPEAKER_00", "SPEAKER_01", "SPEAKER_02" >>

\* diarization.py:287  f"Спикер №{i+1}" for i = 0, 1, 2
RenamedNames == SpeakerNames \o << "speaker_3" >>

\* diarization.py:236-251  the turns collected from the pipeline, each one
\* second long and starting in one of three seconds, in the order the
\* pipeline yields them
RawTurnLists ==
  UNION {[1..n -> {[start |-> a, end |-> a + 1, speaker |-> sp] :
                     a \in 0..2, sp \in Range(RawIds)}] :
           n \in 0..MaxRawTurns}

InitRename ==
  /\ StatIdle
  /\ LateIdle
  /\ pipeline_turns \in RawTurnLists
  /\ speaker_segments = << >>
  /\ transcription_segments \in
       {<< >>, << [transcription |-> "speech", start |-> 0, end |-> 1,
                   speaker |-> "none"] >>}
  /\ hfTokenValid = TRUE
  /\ stats = << >>
  /\ response = NoResponse
  /\ ApiIdle
  /\ CallIdle
  /\ GuiIdle

RECURSIVE InsertByStart(_, _)
\* seg put behind every turn of the sorted list that starts no later
InsertByStart(seg, sorted) ==
  IF sorted = << >> THEN << seg >>
  ELSE IF Head(sorted).start <= seg.start
    THEN << Head(sorted) >> \o InsertByStart(seg, Tail(sorted))
    ELSE << seg >> \o sorted

RECURSIVE SortByStart(_)
\* diarization.py:254  segments.sort(key=lambda s: s.start), a stable sort
SortByStart(segments) ==
  IF segments = << >> THEN << >>
  ELSE InsertByStart(segments[Len(segments)],
                     SortByStart(SubSeq(segments, 1, Len(segments) - 1)))

RECURSIVE speaker_order(_, _)
\* diarization.py:278-283  the speakers in the order of first appearance
speaker_order(segments, order) ==
  IF segments = << >> THEN order
  ELSE IF Head(segments).speaker \in Range(order)
    THEN speaker_order(Tail(segments), order)
    ELSE speaker_order(Tail(segments), Append(order, Head(segments).speaker))

\* the place of a speaker in a list of speakers
IndexIn(order, speaker) == CHOOSE i \in DOMAIN order : order[i] = speaker

\* the renaming that numbers the speakers by the order of their raw names
rename_speakers_by_name(segments) ==
  LET present == SelectSeq(RawIds, LAMBDA id :
                             \E i \in DOMAIN segments : segments[i].speaker = id)
  IN [i \in DOMAIN segments |->
        [segments[i] EXCEPT
           !.speaker = RenamedNames[IndexIn(present, segments[i].speaker)]]]

\* diarization.py:267-295
rename_speakers(segments) ==
  LET order == speaker_order(segments, << >>)
  IN [i \in DOMAIN segments |->
        [segments[i] EXCEPT
           !.speaker = RenamedNames[IndexIn(order, segments[i].speaker)]]]

\* diarization.py:189-265  the turns of the pipeline sorted and renamed
diarize ==
  /\ speaker_segments = << >>
  /\ speaker_segments' = rename_speakers(SortByStart(pipeline_turns))
  /\ UNCHANGED << hfTokenValid, apiVars, stats, response, callVars, guiVars,
                  statVars, lateVars, pipeline_turns, transcription_segments >>

NextRename == diarize

SpecRename == InitRename /\ [][NextRename]_vars

\* ------------------------------------------- estimating processing time
\* ProcessingStats: the history of processed files, its summary and the
\* estimates drawn from them.  Recorded times are whole seconds, ratios are
\* thousandths and estimates are milliseconds.

\* most records the history holds
MaxRecords == 2
\* most files of one batch estimate
MaxBatch == 2

\* processing_stats.py:45  os.path.splitext(file_path)[1].lower()
splitext ==
  [path \in {"a.wav", "A.WAV", "b.mp3"} |->
     IF path = "b.mp3" THEN ".mp3" ELSE ".wav"]

Extensions == {splitext[path] : path \in DOMAIN splitext}

\* gui/app.py:894-898  << media_duration, conversion_time, transcription_time >>
\* of a processed file; media_duration is 0 when ffprobe found none
Timings == {<< 0, 1, 39 >>, << 3, 1, 1 >>, << 100, 1, 39 >>}
\* gui/app.py:801-808  the durations an estimate is asked for
AskedDurations == {0, 6, 60, 200}

\* processing_stats.py:47-56  the fields of a record the estimates read
Record(ext, duration, conversion, transcription, success) ==
  [file_extension |-> ext, total_duration |-> duration,
   conversion_time |-> conversion, transcription_time |-> transcription,
   success |-> success]

RECURSIVE SumOf(_)
\* processing_stats.py:83-86  sum(...) of a list of numbers
SumOf(values) ==
  IF values = << >> THEN 0 ELSE Head(values) + SumOf(Tail(values))

\* a ratio of whole numbers cut to a whole number of units
RoundWhole(num, den) == ((num \div den) \div 1000) * 1000

\* processing_stats.py:101  round(processing_ratio, 3), in thousandths
Round3(num, den) == (2 * num + den) \div (2 * den)

\* the summary drawn from every record, failed ones included
update_summary_all(history, before) ==
  IF history = << >> THEN before
  ELSE [ext \in {history[i].file_extension : i \in DOMAIN history} |->
          LET records == SelectSeq(history, LAMBDA r : r.file_extension = ext)
              media == SumOf([i \in DOMAIN records |-> records[i].total_duration])
              total == SumOf([i \in DOMAIN records |->
                                records[i].conversion_time
                                  + records[i].transcription_time])
          IN [count |-> Len(records),
              processing_ratio |->
                IF media > 0 THEN Round3(1000 * total, media) ELSE 1000]]

\* processing_stats.py:62-107  the ratio of the two averages is the ratio
\* of the two sums
update_summary(history, before) ==
  LET successful == SelectSeq(history, LAMBDA r : r.success)
  IN IF history = << >> \/ successful = << >> THEN before
     ELSE [ext \in {successful[i].file_extension : i \in DOMAIN successful} |->
             LET records == SelectSeq(successful,
                                      LAMBDA r : r.file_extension = ext)
                 media == SumOf([i \in DOMAIN records |->
                                   records[i].total_duration])
                 total == SumOf([i \in DOMAIN records |->
                                   records[i].conversion_time
                                     + records[i].transcription_time])
             IN [count |-> Len(records),
                 processing_ratio |->
                   IF media > 0 THEN Round3(1000 * total, media) ELSE 1000]]

RECURSIVE GCD(_, _)
\* the fraction is kept in lowest terms
GCD(a, b) == IF b = 0 THEN a ELSE GCD(b, a % b)

RECURSIVE RatioSum(_)
\* processing_stats.py:140-147  sum(total_ratios) as a fraction << num, den >>
RatioSum(records) ==
  IF records = << >> THEN << 0, 1 >>
  ELSE LET rest == RatioSum(Tail(records))
           r == Head(records)
           num == rest[1] * r.total_duration
                    + (r.conversion_time + r.transcription_time) * rest[2]
           den == rest[2] * r.total_duration
       IN << num \div GCD(num, den), den \div GCD(num, den) >>

\* the estimate without its floor of five seconds
estimate_unfloored(history, summ, file_ext, media_duration) ==
  IF media_duration <= 0 THEN 30000
  ELSE IF file_ext \in DOMAIN summ
    THEN media_duration * summ[file_ext].processing_ratio
    ELSE LET all_records ==
               SelectSeq(history, LAMBDA r : r.success /\ r.total_duration > 0)
             sum == RatioSum(all_records)
         IN IF all_records # << >>
              THEN (media_duration * 1000 * sum[1])
                     \div (sum[2] * Len(all_records))
              ELSE media_duration * 500

\* processing_stats.py:109-153  the estimate in milliseconds, the global
\* average cut to a whole millisecond
estimate_time(history, summ, file_ext, media_duration) ==
  IF media_duration <= 0 THEN 30000
  ELSE IF file_ext \in DOMAIN summ
    THEN Max(media_duration * summ[file_ext].processing_ratio, 5000)
    ELSE LET all_records ==
               SelectSeq(history, LAMBDA r : r.success /\ r.total_duration > 0)
             sum == RatioSum(all_records)
         IN IF all_records # << >>
              THEN Max((media_duration * 1000 * sum[1])
                         \div (sum[2] * Len(all_records)), 5000)
              ELSE Max(media_duration * 500, 5000)

InitStats ==
  /\ stats = << >>
  /\ StatIdle
  /\ LateIdle
  /\ pipeline_turns = << >>
  /\ speaker_segments = << >>
  /\ transcription_segments = << >>
  /\ hfTokenValid = TRUE
  /\ response = NoResponse
  /\ ApiIdle
  /\ CallIdle
  /\ GuiIdle

offStatVars == << hfTokenValid, apiVars, response, callVars, guiVars,
                 pipeline_turns, speaker_segments, transcription_segments,
                 lateVars >>

\* processing_stats.py:37-60  the record appended, the summary rebuilt
add_timed_record(ext, duration, conversion, transcription, success) ==
  /\ Len(stats) < MaxRecords
  /\ stats' = Append(stats, Record(ext, duration, conversion, transcription,
                                   success))
  /\ summary' = update_summary(stats', summary)
  /\ UNCHANGED << offStatVars, estimated >>

\* processing_stats.py:109-153; one estimate is followed
estimate_processing_time(file_path, media_duration) ==
  /\ estimated = NoEstimate
  /\ estimated' =
       [op |-> "estimate_processing_time",
        file_extension |-> splitext[file_path],
        media_duration |-> media_duration,
        seconds1000 |-> estimate_time(stats, summary, splitext[file_path],
                                      media_duration)]
  /\ UNCHANGED << offStatVars, stats, summary >>

\* the (file_path, media_duration) lists a batch estimate is asked for
BatchLists ==
  UNION {[1..n -> {"a.wav", "b.mp3"} \X {6, 60}] : n \in 0..MaxBatch}

\* processing_stats.py:155-176  per_file is a dict: a path named again
\* overwrites its entry, total_seconds counts every item of the list
estimate_batch_time(files) ==
  /\ estimated = NoEstimate
  /\ estimated' =
       [op |-> "estimate_batch_time",
        files |-> files,
        per_file |->
          [path \in {files[i][1] : i \in DOMAIN files} |->
             LET last == CHOOSE i \in DOMAIN files :
                           /\ files[i][1] = path
                           /\ \A j \in DOMAIN files : files[j][1] = path => j <= i
             IN estimate_time(stats, summary, splitext[path], files[last][2])],
        total_seconds |->
          SumOf([i \in DOMAIN files |->
                   estimate_time(stats, summary, splitext[files[i][1]],
                                 files[i][2])])]
  /\ UNCHANGED << offStatVars, stats, summary >>

NextStats ==
  \/ \E ext \in Extensions, timing \in Timings, success \in BOOLEAN :
       add_timed_record(ext, timing[1], timing[2], timing[3], success)
  \/ \E file_path \in DOMAIN splitext, media_duration \in AskedDurations :
       estimate_processing_time(file_path, media_duration)
  \/ \E files \in BatchLists : estimate_batch_time(files)

SpecStats == InitStats /\ [][NextStats]_vars

\* ------------------------------------------------ reading a job's result
\* The read handlers look at the store and at the result directory only, so
\* they are followed from every store the service can have built.

\* api.py:355, 364-366  the values progress takes while a job is processed
ProcessingProgress == {5, 20, 95}

\* the records process_transcription leaves in the store
TaskRecords ==
  {NewTask}
    \cup {[status |-> "processing", progress |-> p, error |-> "none",
           error_details |-> FALSE] : p \in ProcessingProgress}
    \cup {[status |-> "completed", progress |-> 100, error |-> "none",
           error_details |-> FALSE]}
    \cup {[status |-> "failed", progress |-> 0, error |-> "not_found",
           error_details |-> FALSE],
          [status |-> "failed", progress |-> 5, error |-> "unavailable",
           error_details |-> FALSE]}
    \cup {[status |-> "failed", progress |-> p, error |-> "processing_failed",
           error_details |-> TRUE] : p \in ProcessingProgress \ {5}}

\* the stores over the ids handed out
Stores == UNION {[S -> TaskRecords] : S \in SUBSET Ids}

WithStatus(store, statuses) ==
  {j \in DOMAIN store : store[j].status \in statuses}

InitQuery ==
  /\ hfTokenValid = TRUE
  /\ apiState = "running"
  /\ MAX_CONCURRENT_TASKS = MaxPool
  /\ nextId = MaxJobs
  /\ tasks_storage \in {store \in Stores :
                          Cardinality(WithStatus(store, {"processing"})) <= MaxPool}
  /\ processing_semaphore =
       MaxPool - Cardinality(WithStatus(tasks_storage, {"processing"}))
  /\ uploads = WithStatus(tasks_storage, {"pending", "processing"})
  /\ resultDirs = WithStatus(tasks_storage, {"processing", "completed"})
  /\ artifacts \in SUBSET WithStatus(tasks_storage, {"completed"})
  /\ tempWav = {}
  /\ pc = [j \in Ids |->
             IF j \notin DOMAIN tasks_storage THEN "done"
             ELSE IF tasks_storage[j].status = "pending" THEN "queued"
             ELSE IF tasks_storage[j].status = "processing" THEN "convert"
             ELSE "done"]
  /\ attempt = [j \in Ids |-> 0]
  /\ pfSuccess = [j \in Ids |-> FALSE]
  /\ converter = [j \in Ids |-> "none"]
  /\ asr = [j \in Ids |-> "none"]
  /\ calls = [j \in Ids |-> [conv |-> 0, asr |-> 0]]
  /\ waits = [j \in Ids |-> 0]
  /\ checks = [j \in Ids |-> 0]
  /\ raised = {}
  /\ deletedQueued = {}
  /\ refusal = NoRefusal
  /\ stats = << >>
  /\ response = NoResponse
  /\ CallIdle
  /\ GuiIdle
  /\ MapIdle

\* a handler that answers for every job that has ended
ResultCodeEnded(task_id) ==
  IF task_id \notin DOMAIN tasks_storage THEN 404
  ELSE IF tasks_storage[task_id].status \notin {"completed", "failed"} THEN 400
  ELSE 200

\* api.py:1005-1017 and 1198-1211  the tests both read handlers start with
ResultCode(task_id) ==
  IF task_id \notin DOMAIN tasks_storage THEN 404
  ELSE IF tasks_storage[task_id].status # "completed" THEN 400
  ELSE 200

\* api.py:994-1025  GET /api/v1/tasks/{task_id}/result
get_task_result(task_id) ==
  /\ apiState = "running"
  /\ response' = [op |-> "get_task_result", id |-> task_id,
                  code |-> ResultCode(task_id)]
  /\ UNCHANGED << hfTokenValid, apiVars, stats, callVars, guiVars, mapVars,
                  statVars, lateVars >>

\* api.py:1192-1276  GET /api/v1/tasks/{task_id}/download: after the same
\* tests the file is looked up in the result directory
download_result(task_id) ==
  /\ apiState = "running"
  /\ response' = [op |-> "download_result", id |-> task_id,
                  code |-> IF ResultCode(task_id) = 200 /\ task_id \notin artifacts
                             THEN 404 ELSE ResultCode(task_id)]
  /\ UNCHANGED << hfTokenValid, apiVars, stats, callVars, guiVars, mapVars,
                  statVars, lateVars >>

NextQuery ==
  \/ \E task_id \in Ids : get_task_result(task_id)
  \/ \E task_id \in Ids : download_result(task_id)

SpecQuery == InitQuery /\ [][NextQuery]_vars

\* ------------------------------------------------------------- properties
Status(j) == tasks_storage[j].status

Stored == DOMAIN tasks_storage

Processing == {j \in Stored : Status(j) = "processing"}

\* C1: in every reachable state at most MAX_CONCURRENT_TASKS jobs have status
\* 'processing', and at most that many executions of process_transcription
\* are inside the semaphore-guarded block.
C1_AtMostNProcessing ==
  /\ Cardinality(Processing) <= MAX_CONCURRENT_TASKS
  /\ Cardinality(Inside) <= MAX_CONCURRENT_TASKS

\* the pool is full while another submitted job is still pending
C1_Witness ==
  /\ Cardinality(Processing) = MAX_CONCURRENT_TASKS
  /\ \E j \in Stored : pc[j] = "queued" /\ Status(j) = "pending"

\* C2: the permits held always equal the number of pipeline executions in
\* progress, whatever path the earlier executions left by; with no execution
\* in progress all permits are free.
C2_PermitsBalanced ==
  apiState = "running" =>
    /\ processing_semaphore = MAX_CONCURRENT_TASKS - Cardinality(Inside)
    /\ (Inside = {} => processing_semaphore = MAX_CONCURRENT_TASKS)

\* one execution left by the exception of its handler, another one failed
\* after holding its permit through the re-check loop, nothing is running
C2_Witness ==
  /\ Inside = {}
  /\ processing_semaphore = MAX_CONCURRENT_TASKS
  /\ raised # {}
  /\ \E j \in Stored : pc[j] = "done" /\ tasks_storage[j].error = "unavailable"

\* C3: process_transcription never raises to its caller, also when the job
\* was deleted while it was pending.
C3_NeverRaises == raised = {}

Rank(status) ==
  CASE status = "pending" -> 0
    [] status = "processing" -> 1
    [] OTHER -> 2

\* C4: while a record exists its status only moves forward along
\* pending -> processing -> completed | failed, and a completed or failed
\* record keeps its status.
C4_StatusForward ==
  [][\A j \in Ids :
       (j \in Stored /\ j \in DOMAIN tasks_storage') =>
         /\ Rank(tasks_storage'[j].status) >= Rank(Status(j))
         /\ (Status(j) \in {"completed", "failed"} =>
               tasks_storage'[j].status = Status(j))]_vars

\* one job went pending -> processing -> completed, another one failed
C4_Witness ==
  /\ \E j \in Stored : Status(j) = "completed" /\ calls[j].asr = 1
  /\ \E j \in Stored : Status(j) = "failed"

\* C5: a delete_task call for a job whose status is 'processing' is refused
\* and leaves the record (status and progress included), the upload file and
\* the result directory with its files as they were.
C5_DeleteProcessingRejected ==
  [][\A j \in Ids :
       (delete_task(j) /\ j \in Stored /\ Status(j) = "processing") =>
         /\ refusal' = [op |-> "delete_task", id |-> j]
         /\ tasks_storage' = tasks_storage
         /\ uploads' = uploads
         /\ resultDirs' = resultDirs
         /\ artifacts' = artifacts
         /\ tempWav' = tempWav]_vars

\* a delete request for a job in progress has just been refused, with the
\* record, the upload file and the result directory still there
C5_Witness ==
  /\ refusal.op = "delete_task"
  /\ refusal.id \in Processing
  /\ refusal.id \in uploads
  /\ refusal.id \in resultDirs

\* C6: for a job deleted while it was pending, before its pipeline got a
\* permit, the converter and the ASR engine are never invoked, no status is
\* set and no record of that id is in the store again.
C6_DeletedQueuedNeverRuns ==
  \A j \in deletedQueued :
    /\ calls[j].conv = 0
    /\ calls[j].asr = 0
    /\ j \notin Stored
    /\ pc[j] \in {"queued", "done"}

\* the pipeline of a job deleted while pending has run and ended
C6_Witness == \E j \in deletedQueued : pc[j] = "done"

MissingInputErrors == {"not_found", "unavailable"}

ConverterNull == {"failed", "failed_partial", "missing"}

\* C8: when the converter returns None the ASR engine is not invoked, no
\* rendered artifact is written, the job is never completed and it is failed
\* when its pipeline ends.
C8_ConversionFailureFails ==
  \A j \in Ids :
    converter[j] \in ConverterNull =>
      /\ calls[j].asr = 0
      /\ j \notin artifacts
      /\ j \notin raised
      /\ (pc[j] = "returned" => (j \in Stored /\ Status(j) = "processing"))
      /\ (j \in Stored => Status(j) # "completed")
      /\ ((pc[j] = "done" /\ j \in Stored) => Status(j) = "failed")

\* a job whose conversion failed has ended
C8_Witness ==
  \E j \in Stored :
    /\ converter[j] \in ConverterNull
    /\ pc[j] = "done"
    /\ Status(j) = "failed"
    /\ tasks_storage[j].error = "processing_failed"

\* C9: once process_file has returned, on any exit path, no temporary WAV
\* file of that job is on disk.
C9_NoTempAfterReturn ==
  \A j \in Ids : pc[j] \in {"returned", "done"} => j \notin tempWav

AsrErrors == {"value_error", "exception", "no_token"}

\* C10: an ASR exception or a missing or rejected credential makes
\* process_file report success = False, the job is never completed, it is
\* failed when its pipeline ends, and neither collaborator is called again.
C10_AsrFailureFails ==
  \A j \in Ids :
    asr[j] \in AsrErrors =>
      /\ ~pfSuccess[j]
      /\ pc[j] \in {"returned", "done"}
      /\ calls[j].asr <= 1
      /\ calls[j].conv = 1
      /\ j \notin artifacts
      /\ (j \in Stored => Status(j) # "completed")
      /\ ((pc[j] = "done" /\ j \in Stored) => Status(j) = "failed")

\* one job ended failed on a credential error of the engine, another one on
\* some other exception
C10_Witness ==
  /\ \E j \in Stored : asr[j] = "value_error" /\ pc[j] = "done" /\ Status(j) = "failed"
  /\ \E j \in Stored : asr[j] = "exception" /\ pc[j] = "done" /\ Status(j) = "failed"


\* the files the requested formats stand for when there is no segment
EmptyArtifacts ==
  (IF "txt" \in output_formats THEN {"txt", "timecodes"} ELSE {})
    \cup (output_formats \ {"txt"})

\* C11: when the ASR engine returns an empty segment list and no write
\* raises, process_file reports success and has written one artifact for
\* every requested format (txt with its timecodes file), each without any
\* transcript line, whatever set of formats was requested.
C11_EmptyStillCompletes ==
  (lastResult.transcribed /\ lastResult.utterances = << >>
     /\ ~lastResult.write_error) =>
    /\ lastResult.success
    /\ Range(lastResult.saved) = EmptyArtifacts
    /\ lastResult.entries = 0

\* an empty ASR result was rendered in all four formats, diarization on
C11_Witness ==
  /\ lastResult.transcribed
  /\ lastResult.utterances = << >>
  /\ lastResult.success
  /\ output_formats = Formats
  /\ enable_diarization
  /\ Len(lastResult.saved) = Cardinality(EmptyArtifacts)

DiarFailures == {"no_manager", "diarize_raises", "map_raises"}

\* C12: when diarization was requested and the manager is missing, diarize
\* raises or the mapping raises, every segment ends with a speaker label
\* (the default label, or for a mapping that raised midway the label it had
\* been given), and process_file reports success unless a write raises.
C12_DiarizationFailureRecovered ==
  (lastResult.transcribed /\ lastResult.diarization \in DiarFailures) =>
    /\ \A i \in DOMAIN lastResult.utterances :
         /\ lastResult.utterances[i].speaker # "none"
         /\ (lastResult.diarization # "map_raises" =>
               lastResult.utterances[i].speaker = DefaultSpeaker)
    /\ (~lastResult.write_error => lastResult.success)

\* the mapping raised after it had labelled the first of two segments: the
\* first keeps its label, the second has the default one, the call succeeded
C12_Witness ==
  /\ lastResult.diarization = "map_raises"
  /\ lastResult.success
  /\ Len(lastResult.utterances) = 2
  /\ lastResult.utterances[1].speaker = "speaker_2"
  /\ lastResult.utterances[2].speaker = DefaultSpeaker

C14_CompletedHasRecord ==
  \A j \in Stored :
    Status(j) = "completed" =>
      Cardinality({i \in DOMAIN stats : stats[i].file = j /\ stats[i].success}) = 1

\* C15: every failed job carries an error message and the traceback of its
\* failure, whatever made it fail.
C15_FailedHasDetails ==
  \A j \in Stored :
    Status(j) = "failed" =>
      /\ tasks_storage[j].error # "none"
      /\ tasks_storage[j].error_details

\* C16: get_task_result and download_result answer 200 only for a job whose
\* status is 'completed'; for a stored job in any other state they answer
\* 400, for an unknown id 404, and they leave the store, the uploads and the
\* result files as they were.
C16_ResultOnlyWhenCompleted ==
  [][\A j \in Ids :
       (get_task_result(j) \/ download_result(j)) =>
         /\ tasks_storage' = tasks_storage
         /\ UNCHANGED diskVars
         /\ (j \notin Stored => response'.code = 404)
         /\ ((j \in Stored /\ Status(j) # "completed") => response'.code = 400)
         /\ (response'.code = 200 => (j \in Stored /\ Status(j) = "completed"))]_vars

\* the result of a failed job was asked for and refused while another job
\* is completed
C16_Witness ==
  /\ response.op = "get_task_result"
  /\ response.code = 400
  /\ response.id \in Stored
  /\ Status(response.id) = "failed"
  /\ \E j \in Stored : Status(j) = "completed"

\* C17: a submit of one file (upload_file) that succeeds hands out an id
\* never used before and adds
\* exactly one record, pending with progress 0, to the store; every other
\* record is as it was, the pipeline of the new job has been scheduled but
\* has taken no step, no permit has been taken and neither collaborator has
\* been called for it: the record can be read before the pipeline starts.
C17_SubmitQueuesOnly ==
  [][(/\ \E supported \in BOOLEAN, saved \in BOOLEAN : upload_file(supported, saved)
      /\ nextId' # nextId) =>
       LET task_id == nextId' IN
         /\ task_id \notin Stored
         /\ pc[task_id] = "idle"
         /\ DOMAIN tasks_storage' = Stored \cup {task_id}
         /\ tasks_storage'[task_id].status = "pending"
         /\ tasks_storage'[task_id].progress = 0
         /\ \A k \in Stored : tasks_storage'[k] = tasks_storage[k]
         /\ pc'[task_id] = "queued"
         /\ calls'[task_id] = [conv |-> 0, asr |-> 0]
         /\ task_id \notin resultDirs'
         /\ processing_semaphore' = processing_semaphore]_vars

\* a submit has returned while the only permit is held by an earlier job:
\* the new record is in the store, pending, and its pipeline has not started
C17_Witness ==
  /\ nextId \in Stored
  /\ Status(nextId) = "pending"
  /\ tasks_storage[nextId].progress = 0
  /\ pc[nextId] = "queued"
  /\ processing_semaphore = 0
  /\ \E j \in Stored : j # nextId /\ Status(j) = "processing"

\* C19: the progress of every stored job is within 0..100, is 100 only when
\* the job's status is 'completed', and no step makes it smaller.
C19_ProgressMonotone ==
  [][\A j \in DOMAIN tasks_storage' :
       /\ tasks_storage'[j].progress \in 0..100
       /\ (tasks_storage'[j].progress = 100 =>
             tasks_storage'[j].status = "completed")
       /\ (j \in Stored => tasks_storage'[j].progress >= tasks_storage[j].progress)]_vars

\* one job is completed at 100, another one failed after its transcription
\* had brought it to 95
C19_Witness ==
  /\ \E j \in Stored : Status(j) = "completed" /\ tasks_storage[j].progress = 100
  /\ \E j \in Stored : Status(j) = "failed" /\ tasks_storage[j].progress = 95

\* C18: while a batch is processed in the desktop window the overall
\* progress shown is never smaller than the one shown before it, and the bar
\* is full only when every file of the batch has ended.
C18_ProgressNeverDecreases ==
  /\ is_processing => progress_bar >= shownBefore
  /\ progress_bar = 1000 => guiPc = "finished"

\* the segment lies within the turn
FullyInside(trans_seg, turn) ==
  turn.start <= trans_seg.start /\ trans_seg.end <= turn.end

\* C20: a segment that lies fully inside one speaker turn and inside no
\* other turn has been given that turn's speaker, whatever the turn list,
\* overlapping turns included.
C20_ContainedSegmentGetsItsTurn ==
  \A i \in DOMAIN transcription_segments :
    \A t \in DOMAIN speaker_segments :
      (/\ transcription_segments[i].speaker # "none"
       /\ FullyInside(transcription_segments[i], speaker_segments[t])
       /\ \A u \in DOMAIN speaker_segments \ {t} :
            ~FullyInside(transcription_segments[i], speaker_segments[u]))
        => transcription_segments[i].speaker = speaker_segments[t].speaker

\* the time a segment and a turn share
Overlap(trans_seg, turn) ==
  Max(0, Min(trans_seg.end, turn.end) - Max(trans_seg.start, turn.start))

\* the turn holds the middle of the segment
HoldsMidpoint(trans_seg, turn) ==
  /\ turn.start * 2 <= trans_seg.start + trans_seg.end
  /\ trans_seg.start + trans_seg.end <= turn.end * 2

\* C21: a segment that overlaps two speaker turns by unequal amounts has
\* been given the speaker of the turn it overlaps strictly more.
C21_GreaterOverlapWins ==
  \A i \in DOMAIN transcription_segments :
    \A t \in DOMAIN speaker_segments : \A u \in DOMAIN speaker_segments :
      (/\ transcription_segments[i].speaker # "none"
       /\ Len(speaker_segments) = 2
       /\ Overlap(transcription_segments[i], speaker_segments[u]) > 0
       /\ Overlap(transcription_segments[i], speaker_segments[t])
            > Overlap(transcription_segments[i], speaker_segments[u]))
        => transcription_segments[i].speaker = speaker_segments[t].speaker

\* C22: when no turn holds the middle of a segment, the segment has been
\* given the speaker of a turn whose overlap with it is the largest and
\* positive, and the unknown-speaker label when no turn overlaps it at all,
\* an empty turn list included.
C22_OverlapFallback ==
  \A i \in DOMAIN transcription_segments :
    LET seg == transcription_segments[i]
        positive == {t \in DOMAIN speaker_segments :
                       Overlap(seg, speaker_segments[t]) > 0}
    IN (/\ seg.speaker # "none"
        /\ \A t \in DOMAIN speaker_segments :
             ~HoldsMidpoint(seg, speaker_segments[t]))
         => IF positive = {}
              THEN seg.speaker = "unknown_speaker"
              ELSE \E t \in positive :
                     /\ seg.speaker = speaker_segments[t].speaker
                     /\ \A u \in positive :
                          Overlap(seg, speaker_segments[u])
                            <= Overlap(seg, speaker_segments[t])

\* a mapped segment whose middle no turn holds, overlapping its second turn
\* more than its first, the two turns of different speakers
C22_Witness ==
  /\ Len(speaker_segments) = 2
  /\ speaker_segments[1].speaker # speaker_segments[2].speaker
  /\ \E i \in DOMAIN transcription_segments :
       LET seg == transcription_segments[i]
       IN /\ seg.speaker = speaker_segments[2].speaker
          /\ \A t \in DOMAIN speaker_segments :
               ~HoldsMidpoint(seg, speaker_segments[t])
          /\ Overlap(seg, speaker_segments[1]) > 0
          /\ Overlap(seg, speaker_segments[2]) > Overlap(seg, speaker_segments[1])

\* the turns of the pipeline in the order of their start
TimeSorted == SortByStart(pipeline_turns)

\* the number the renaming owes turn i of the time-sorted list: how many
\* different raw speakers are heard up to the first turn of its speaker
Ordinal(i) ==
  LET first == CHOOSE f \in 1..i :
                 /\ TimeSorted[f].speaker = TimeSorted[i].speaker
                 /\ \A g \in 1..(f - 1) :
                      TimeSorted[g].speaker # TimeSorted[i].speaker
  IN Cardinality({TimeSorted[g].speaker : g \in 1..first})

\* C23: the renamed turns are the time-sorted turns of the pipeline, each
\* labelled with the number of its raw speaker in the order of first
\* appearance; turns of one raw speaker share a label, turns of different
\* raw speakers never do, whatever the transcript segments are.
C23_RenamedByFirstAppearance ==
  speaker_segments # << >> =>
    /\ Len(speaker_segments) = Len(TimeSorted)
    /\ \A i \in DOMAIN speaker_segments :
         /\ speaker_segments[i].start = TimeSorted[i].start
         /\ speaker_segments[i].speaker = RenamedNames[Ordinal(i)]
    /\ \A i \in DOMAIN speaker_segments : \A j \in DOMAIN speaker_segments :
         (speaker_segments[i].speaker = speaker_segments[j].speaker)
           <=> (TimeSorted[i].speaker = TimeSorted[j].speaker)

\* the turns A, B, A, C in time, renamed 1, 2, 1, 3, where A bears the last
\* raw name and the pipeline gave a turn of B first
C23_Witness ==
  /\ Len(speaker_segments) = 4
  /\ [i \in 1..4 |-> speaker_segments[i].speaker]
       = << "speaker_1", "speaker_2", "speaker_1", "speaker_3" >>
  /\ TimeSorted[1].speaker = "SPEAKER_02"
  /\ TimeSorted[3].speaker = "SPEAKER_02"
  /\ pipeline_turns[1].speaker = TimeSorted[2].speaker
  /\ transcription_segments # << >>

\* the successful records of the history
Successful == SelectSeq(stats, LAMBDA r : r.success)

\* the successful records whose media duration is known
SuccessfulTimed ==
  SelectSeq(stats, LAMBDA r : r.success /\ r.total_duration > 0)

\* media_duration times the average of the ratios of the records, in
\* milliseconds
TimesAverageRatio(media_duration, records) ==
  (media_duration * 1000 * RatioSum(records)[1])
    \div (RatioSum(records)[2] * Len(records))

\* the step is a call of estimate_processing_time for a positive duration
EstimateStep ==
  /\ estimated' # estimated
  /\ estimated'.op = "estimate_processing_time"
  /\ estimated'.media_duration > 0

\* C24 as stated: the ratio of the extension if the history holds a
\* successful record of it, else the average ratio over all successful
\* records if there is one, else half the duration; never under 5 seconds.
C24_PrecedenceAllSuccessful ==
  [][EstimateStep =>
       LET ext == estimated'.file_extension
           d == estimated'.media_duration
       IN IF \E i \in DOMAIN Successful : Successful[i].file_extension = ext
            THEN /\ ext \in DOMAIN summary
                 /\ estimated'.seconds1000
                      = Max(d * summary[ext].processing_ratio, 5000)
            ELSE IF Successful # << >>
              THEN /\ \A i \in DOMAIN Successful :
                        Successful[i].total_duration > 0
                   /\ estimated'.seconds1000
                        = Max(TimesAverageRatio(d, Successful), 5000)
              ELSE estimated'.seconds1000 = Max(d * 500, 5000)]_vars

\* C24: the estimate for a positive duration is that duration times the
\* ratio of the extension if the history holds a successful record of it,
\* else times the average ratio over the successful records with a positive
\* media duration if there is one, else half the duration; it is never
\* under 5 seconds.
C24_Precedence ==
  [][EstimateStep =>
       LET ext == estimated'.file_extension
           d == estimated'.media_duration
       IN /\ estimated'.seconds1000 >= 5000
          /\ IF \E i \in DOMAIN Successful : Successful[i].file_extension = ext
               THEN /\ ext \in DOMAIN summary
                    /\ estimated'.seconds1000
                         = Max(d * summary[ext].processing_ratio, 5000)
               ELSE IF SuccessfulTimed # << >>
                 THEN estimated'.seconds1000
                        = Max(TimesAverageRatio(d, SuccessfulTimed), 5000)
                 ELSE estimated'.seconds1000 = Max(d * 500, 5000)]_vars

\* a file of 6 seconds estimated at the floor from the record of another
\* extension, a successful record without media duration left aside
C24_Witness ==
  /\ estimated.op = "estimate_processing_time"
  /\ estimated.media_duration = 6
  /\ estimated.file_extension \notin DOMAIN summary
  /\ Len(SuccessfulTimed) = 1
  /\ Len(Successful) = 2
  /\ TimesAverageRatio(6, SuccessfulTimed) < 5000
  /\ estimated.seconds1000 = 5000

\* C25: appending the record of a failed file changes no estimate, for any
\* extension and any duration: the ratios are drawn from successful records
\* only.
C25_FailedRecordChangesNoEstimate ==
  [][(stats' # stats /\ ~stats'[Len(stats')].success) =>
       \A ext \in Extensions : \A d \in AskedDurations :
         estimate_time(stats', summary', ext, d)
           = estimate_time(stats, summary, ext, d)]_vars

\* a failed record appended behind a successful record of its extension,
\* its timing another one
C25_Witness ==
  /\ Len(stats) = 2
  /\ stats[1].success /\ ~stats[2].success
  /\ stats[1].file_extension = stats[2].file_extension
  /\ stats[1].total_duration = 100 /\ stats[2].total_duration = 3
  /\ DOMAIN summary = {stats[1].file_extension}

\* C26: with exactly one successful record in the history, of extension e,
\* media duration D > 0 and processing time P, the estimate for a file of
\* extension e and duration d > 0 is max(d * P / D, 5) seconds up to the
\* rounding of the ratio to three decimals.
C26_SingleRecordEstimate ==
  [][(/\ EstimateStep
      /\ Len(Successful) = 1
      /\ Successful[1].total_duration > 0
      /\ Successful[1].file_extension = estimated'.file_extension) =>
       LET D == Successful[1].total_duration
           P == Successful[1].conversion_time + Successful[1].transcription_time
           d == estimated'.media_duration
           exact == Max(1000 * d * P, 5000 * D)
           given == estimated'.seconds1000 * D
       IN /\ 2 * (given - exact) <= d * D
          /\ 2 * (exact - given) <= d * D]_vars

\* one record of 100 s of media processed in 40 s, and a file of the same
\* extension and 200 s estimated at 80 s
C26_Witness ==
  /\ estimated.op = "estimate_processing_time"
  /\ estimated.media_duration = 200
  /\ estimated.seconds1000 = 80000
  /\ Len(stats) = 1
  /\ stats[1].success
  /\ stats[1].file_extension = estimated.file_extension
  /\ stats[1].total_duration = 100
  /\ stats[1].conversion_time + stats[1].transcription_time = 40

RECURSIVE SumOver(_, _)
\* the sum of the values a function takes on a set
SumOver(f, set) ==
  IF set = {} THEN 0
  ELSE LET x == CHOOSE x \in set : TRUE
       IN f[x] + SumOver(f, set \ {x})

\* C27: the total of a batch estimate is the sum of the per-file estimates
\* returned with it, for every list of files, a path named twice included.
C27_BatchTotalIsSumOfPerFile ==
  estimated.op = "estimate_batch_time" =>
    estimated.total_seconds
      = SumOver(estimated.per_file, DOMAIN estimated.per_file)

\* the pieces of one kind in a rendered file
PiecesOf(kind, name) ==
  SelectSeq(lastResult.content[name], LAMBDA piece : piece.kind = kind)

\* the segments whose text a rendered file prints, in the order printed
TextSegs(name) ==
  [j \in DOMAIN PiecesOf("text", name) |-> PiecesOf("text", name)[j].seg]

\* the segments that have something to say, in the order of the input
Spoken ==
  SelectSeq([i \in DOMAIN lastResult.utterances |-> i],
            LAMBDA i : lastResult.utterances[i].transcription \notin {"", "blank"})

C29_SameSegmentsInEveryFormat ==
  \A name \in DOMAIN lastResult.content : TextSegs(name) = Spoken

\* all seven files written from a list with a skipped segment before a
\* spoken one
C29_Witness ==
  /\ DOMAIN lastResult.content
       = {"txt", "timecodes", "diarize", "diarize_timecodes", "md", "srt", "vtt"}
  /\ Len(lastResult.utterances) = 2
  /\ lastResult.utterances[1].transcription = "blank"
  /\ Spoken = << 2 >>

\* the numbers of the SRT blocks are 1..m in order, block j holding the
\* j-th segment with text
SrtNumbered ==
  /\ Len(PiecesOf("index", "srt")) = Len(Spoken)
  /\ \A j \in DOMAIN PiecesOf("index", "srt") :
       /\ PiecesOf("index", "srt")[j].index = j
       /\ PiecesOf("index", "srt")[j].seg = Spoken[j]

\* C30 as stated: the SRT blocks are numbered 1..m without a gap and every
\* block is followed by a blank line.
C30_NumberedEachFollowedByBlankLine ==
  "srt" \in DOMAIN lastResult.content =>
    LET srt == lastResult.content["srt"]
    IN /\ SrtNumbered
       /\ \A p \in DOMAIN srt :
            srt[p].kind = "text" =>
              /\ p + 2 <= Len(srt)
              /\ srt[p + 1] = Newline
              /\ srt[p + 2] = Newline

\* C30: the SRT blocks are numbered 1..m in order, m the number of segments
\* with text, skipped segments leaving no gap; a blank line stands between
\* two blocks, and the text of the last block is followed by one newline,
\* the end of the output.
C30_NumberedAndSeparated ==
  "srt" \in DOMAIN lastResult.content =>
    LET srt == lastResult.content["srt"]
    IN /\ SrtNumbered
       /\ \A p \in DOMAIN srt :
            srt[p].kind = "text" =>
              /\ p + 1 <= Len(srt)
              /\ srt[p + 1] = Newline
              /\ IF srt[p].seg = Spoken[Len(Spoken)]
                   THEN Len(srt) = p + 1
                   ELSE /\ p + 3 <= Len(srt)
                        /\ srt[p + 2] = Newline
                        /\ srt[p + 3].kind = "index"

\* an SRT file whose only block is numbered 1 and holds the second segment,
\* the first one skipped
C30_Witness ==
  /\ "srt" \in DOMAIN lastResult.content
  /\ Len(lastResult.utterances) = 2
  /\ Spoken = << 2 >>
  /\ PiecesOf("index", "srt") = << Piece("index", 2, "none", 1) >>
  /\ lastResult.content["srt"][Len(lastResult.content["srt"])] = Newline

\* C31: the diarized text is written only when diarization was asked for
\* and some segment has text; in it the first segment printed and every
\* segment whose speaker differs from the one printed before it stand under
\* a heading naming the speaker, a blank line before every heading but the
\* first, and a segment of the same speaker follows the one before it
\* without a heading.
C31_DiarizedGroupedBySpeaker ==
  "diarize" \in DOMAIN lastResult.content =>
    LET c == lastResult.content["diarize"]
        speakerOf(j) == lastResult.utterances[Spoken[j]].speaker
    IN /\ enable_diarization
       /\ Spoken # << >>
       /\ TextSegs("diarize") = Spoken
       /\ \A p \in DOMAIN c :
            c[p].kind = "text" =>
              LET j == CHOOSE j \in DOMAIN Spoken : Spoken[j] = c[p].seg
              IN IF j = 1
                   THEN /\ p = 3
                        /\ c[1] = Piece("speaker", c[p].seg, speakerOf(1), 0)
                        /\ c[2] = Newline
                 ELSE IF speakerOf(j) # speakerOf(j - 1)
                   THEN /\ p > 5
                        /\ c[p - 1] = Newline
                        /\ c[p - 2] = Piece("speaker", c[p].seg, speakerOf(j), 0)
                        /\ c[p - 3] = Newline
                        /\ c[p - 4] = Newline
                        /\ c[p - 5] = TextOf(Spoken[j - 1])
                 ELSE /\ c[p - 1] = Newline
                      /\ c[p - 2] = TextOf(Spoken[j - 1])

\* two segments of one speaker under a single heading
C31_Witness ==
  /\ "diarize" \in DOMAIN lastResult.content
  /\ Spoken = << 1, 2 >>
  /\ lastResult.utterances[1].speaker = lastResult.utterances[2].speaker
  /\ Len(PiecesOf("speaker", "diarize")) = 1
  /\ Len(lastResult.content["diarize"]) = 5

C33_PipelineTouchesOwnRecordOnly ==
  [][\A j \in Ids :
       (process_transcription(j) \/ process_file(j)) =>
         \A k \in Ids \ {j} :
           /\ k \in DOMAIN tasks_storage' <=> k \in DOMAIN tasks_storage
           /\ k \in DOMAIN tasks_storage => tasks_storage'[k] = tasks_storage[k]]_vars

\* two pipelines under way at once, one job further than the other
C33_Witness ==
  \E j \in Stored : \E k \in Stored :
    /\ j # k
    /\ Status(j) = "processing" /\ Status(k) = "processing"
    /\ tasks_storage[j].progress = 95
    /\ tasks_storage[k].progress = 20

\* the place of a collaborator in the pipeline
StageOrder == << "convert", "transcribe", "diarize", "render" >>

StageRank(stage) == CHOOSE r \in DOMAIN StageOrder : StageOrder[r] = stage

\* C34: one process_file call invokes its collaborators in the order
\* converter, ASR engine, diarization engine, rendering, each at most once:
\* the converter first, the ASR engine only after a conversion that
\* succeeded, the diarization engine only after the ASR engine has returned
\* segments and only if diarization was asked for, the rendering only after
\* the ASR engine has returned.
C34_StagesInOrderOnce ==
  lastResult.returned =>
    LET inv == lastResult.invoked
    IN /\ Len(inv) > 0 /\ inv[1] = "convert"
       /\ \A a \in DOMAIN inv : \A b \in DOMAIN inv :
            a < b => StageRank(inv[a]) < StageRank(inv[b])
       /\ "transcribe" \in Range(inv) => lastResult.converted
       /\ "diarize" \in Range(inv) =>
            /\ "transcribe" \in Range(inv)
            /\ lastResult.transcribed
            /\ enable_diarization
            /\ Len(lastResult.utterances) > 0
       /\ "render" \in Range(inv) =>
            /\ "transcribe" \in Range(inv)
            /\ lastResult.transcribed

\* a call that went through all four stages, and wrote its files
C34_Witness ==
  /\ lastResult.returned
  /\ lastResult.invoked = StageOrder
  /\ lastResult.success
  /\ lastResult.diarization = "mapped"

C37_RejectedBatchLeavesNoTrace ==
  [][\A files \in Batches :
       (upload_files_batch(files) /\ batch_rejected(files)) =>
         /\ tasks_storage' = tasks_storage
         /\ uploads' = uploads]_vars

Finished == {j \in Stored : Status(j) \in {"completed", "failed"}}

\* C36: every job record created by a single or a batch submission ends as
\* 'completed' or 'failed' unless it is deleted, when every pipeline is given
\* its turn and every collaborator call returns or raises: no job stays
\* pending or processing for ever.
C36_EveryJobEnds ==
  \A j \in Ids : (j \in Stored) ~> (j \notin Stored \/ j \in Finished)

\* C38: the age-based eviction removes only tasks created before the cutoff,
\* and no task, upload file or result directory of a task whose pipeline is
\* in progress (status 'processing').
C38_EvictionSparesYoungAndProcessing ==
  [][cleanup_old_tasks =>
       \A j \in Stored :
         (j \notin aged \/ Status(j) = "processing") =>
           /\ j \in DOMAIN tasks_storage'
           /\ j \in uploads => j \in uploads'
           /\ j \in resultDirs => j \in resultDirs']_vars

\* C39: in the desktop front-ends at most one batch worker thread runs at
\* any time, whatever the sequence of start and clear-all actions: no thread
\* is started while an earlier one is still in process_file.
C39_AtMostOneWorker ==
  \A t \in Running : workers[t].pc = "in_file" => Running = {t}

\* C40: the command-line batch loop processes every file of its list once,
\* in the order of the list, and returns a list with one result per file,
\* whatever the outcome of each file is.
C40_OneResultPerFile ==
  cli_pc \in {"returned", "raised"} =>
    /\ cli_pc = "returned"
    /\ Len(results) = Len(cli_files)
    /\ \A i \in DOMAIN results : results[i].file = i

====
